---- MODULE Spec2Model ----
(***************************************************************************)
(* The CO2 calculation engine of workspace/calculate_co2_report.py:       *)
(* find_co2_factor, get_material_density, get_reinforcement_ratio,        *)
(* calculate_element_co2, aggregate_by_category, generate_report and main,*)
(* the script workspace/gen_report.py, the copy of the element functions *)
(* in workspace/final_co2_calculation.py, and the tools calculate_co2,    *)
(* prepare_batches, wait_for_batch_file and aggregate_batch_results of    *)
(* sdk_tools.py.                                                           *)
(*                                                                         *)
(* Numbers.  Python floats are modelled as exact fixed-point integers:    *)
(*   volume_m3            in 0.1 m3          density_kg_m3  in 0.01 kg/m3  *)
(*   embodied_co2_per_kg  in 0.1 kg/kg       reinforcement percentages in  *)
(*   0.1 %, so the ratio (percentage / 100) is in 0.001                    *)
(*   mass before rounding in 0.001 kg        CO2 before rounding in 1e-8 kg*)
(*   every value rounded to 2 decimals       in 0.01 (cents)               *)
(*   every value rounded to 1 decimal        in 0.1                        *)
(* round() is round-half-even on the exact value.                          *)
(*                                                                         *)
(* Python's None is <<>>, a present value x is <<x>>.  A dict is a         *)
(* sequence of <<key, value>> pairs in insertion order.                    *)
(***************************************************************************)
EXTENDS Integers, Sequences, FiniteSets, TLC

VARIABLES database, elements, pc, idx, detailed_results, skipped_elements,
          total_co2, total_mass, calculated_count, report, exception,
          classified_data, output_file, tool, gen, runs,
          calc, session, batch

vars == <<database, elements, pc, idx, detailed_results, skipped_elements,
          total_co2, total_mass, calculated_count, report, exception,
          classified_data, output_file, tool, gen, runs,
          calc, session, batch>>

\* The locals of the calculate_co2 tool, of the gen_report.py script and of
\* the generate_report invocations that run side by side; the results of
\* single calls of the element functions (calc), the files of a session
\* context directory (session) and the locals of the batch tool that runs
\* on them (batch).
other_programs == <<tool, gen, runs, calc, session, batch>>

\* Longest element list handed to generate_report.
MaxElems == 3

None == <<>>
Some(x) == <<x>>
Val(o) == o[1]

\* ---------------------------------------------------------------- dicts
HasKey(d, k) == \E i \in 1..Len(d) : d[i][1] = k
Get(d, k) == d[CHOOSE i \in 1..Len(d) : d[i][1] = k][2]
\* d.get(k, default)
GetOr(d, k, default) == IF HasKey(d, k) THEN Get(d, k) ELSE default

\* ---------------------------------------------------------------- numbers
Abs(n) == IF n < 0 THEN -n ELSE n

\* round() that drops the digits beyond the last one kept.
RoundTruncating(n, d) == n \div d

\* round(n / d) to the nearest integer, ties to even; d > 0.
RoundHalfEven(n, d) ==
    LET q == n \div d
        r == n % d
    IN  IF 2 * r < d THEN q
        ELSE IF 2 * r > d THEN q + 1
        ELSE IF q % 2 = 0 THEN q ELSE q + 1

\* The same for a divisor of either sign (d # 0).
RoundQuot(n, d) == IF d > 0 THEN RoundHalfEven(n, d) ELSE RoundHalfEven(-n, -d)

TwoDigits(n) == IF n < 10 THEN "0" \o ToString(n) ELSE ToString(n)
Sign(n) == IF n < 0 THEN "-" ELSE ""
\* f"{x:.1f}" of a value held in tenths, f"{x:.2f}" of a value held in cents.
Fmt1(t) == Sign(t) \o ToString(Abs(t) \div 10) \o "." \o ToString(Abs(t) % 10)
Fmt2(c) == Sign(c) \o ToString(Abs(c) \div 100) \o "." \o TwoDigits(Abs(c) % 100)

\* f"{x}" of an optional string
Str(o) == IF o = None THEN "None" ELSE Val(o)

\* ---------------------------------------------------------------- strings
UpperCase == <<"A","B","C","D","E","F","G","H","I","J","K","L","M",
               "N","O","P","Q","R","S","T","U","V","W","X","Y","Z">>
LowerCase == <<"a","b","c","d","e","f","g","h","i","j","k","l","m",
               "n","o","p","q","r","s","t","u","v","w","x","y","z">>
LowerChar(c) ==
    IF \E i \in 1..26 : UpperCase[i] = c
    THEN LowerCase[CHOOSE i \in 1..26 : UpperCase[i] = c]
    ELSE c

RECURSIVE Lower(_)
Lower(s) ==
    IF Len(s) = 0 THEN ""
    ELSE LowerChar(SubSeq(s, 1, 1)) \o Lower(SubSeq(s, 2, Len(s)))

\* kw in s
Contains(s, kw) ==
    \E i \in 1..(Len(s) - Len(kw) + 1) : SubSeq(s, i, i + Len(kw) - 1) = kw

\* d.get(k): None when the key is absent
GetOpt(d, k) == IF HasKey(d, k) THEN Some(Get(d, k)) ELSE None
\* o in d, for an optional key o (None is a key of no JSON object)
InDict(d, o) == o # None /\ HasKey(d, Val(o))

\* ---------------------------------------------------------------- resolver
\* fallback_warning that names neither key nor subcategory.
fallback_warning_unnamed(key, material_subcategory) == "Used a fallback"

\* f"Used {key} as fallback for {material_subcategory}"
fallback_warning(key, material_subcategory) ==
    "Used " \o key \o " as fallback for " \o Str(material_subcategory)

\* find_co2_factor: (co2_factor, source, warnings); raised names the exception
\* that escapes instead, "" when the call returns.
find_co2_factor(db, material_category, material_subcategory) ==
    LET materials == GetOr(db, "materials", <<>>)
    IN
    IF ~HasKey(materials, material_category)
    THEN [raised |-> "", co2_factor |-> None, source |-> "not_found",
          warnings |-> <<"Material category '" \o material_category
                          \o "' not found in database">>]
    ELSE
    LET category_data == Get(materials, material_category)
        generic_key == material_category \o "_generic"
    IN
    IF InDict(category_data, material_subcategory)
    THEN LET entry == Get(category_data, Val(material_subcategory))
         IN [raised |-> "",
             co2_factor |-> GetOpt(entry, "embodied_co2_per_kg"),
             source |-> GetOr(entry, "source", "unknown"),
             warnings |-> <<>>]
    ELSE IF HasKey(category_data, generic_key)
    THEN LET entry == Get(category_data, generic_key)
         IN [raised |-> "",
             co2_factor |-> GetOpt(entry, "embodied_co2_per_kg"),
             source |-> GetOr(entry, "source", "unknown"),
             warnings |-> <<fallback_warning(generic_key, material_subcategory)>>]
    ELSE IF Len(category_data) = 0
    THEN [raised |-> "IndexError", co2_factor |-> None, source |-> "",
          warnings |-> <<>>]
    ELSE
    LET first_key == category_data[1][1]
    IN
    IF first_key # "" /\ Some(first_key) # material_subcategory
    THEN LET entry == category_data[1][2]
         IN [raised |-> "",
             co2_factor |-> GetOpt(entry, "embodied_co2_per_kg"),
             source |-> GetOr(entry, "source", "unknown"),
             warnings |-> <<fallback_warning(first_key, material_subcategory)>>]
    ELSE [raised |-> "", co2_factor |-> None, source |-> "not_found",
          warnings |-> <<"Material '" \o Str(material_subcategory)
                          \o "' not found in database category '"
                          \o material_category \o "'">>]

\* get_material_density without the generic tier: exact key, else first key.
get_material_density_first_key(db, material_category, material_subcategory) ==
    LET materials == GetOr(db, "materials", <<>>)
    IN
    IF ~HasKey(materials, material_category)
    THEN [raised |-> "", density |-> None]
    ELSE
    LET category_data == Get(materials, material_category)
    IN
    IF InDict(category_data, material_subcategory)
    THEN [raised |-> "",
          density |-> GetOpt(Get(category_data, Val(material_subcategory)),
                             "density_kg_m3")]
    ELSE IF Len(category_data) = 0
    THEN [raised |-> "IndexError", density |-> None]
    ELSE IF category_data[1][1] # ""
    THEN [raised |-> "",
          density |-> GetOpt(category_data[1][2], "density_kg_m3")]
    ELSE [raised |-> "", density |-> None]

\* get_material_density: the density, or the exception that escapes.
get_material_density(db, material_category, material_subcategory) ==
    LET materials == GetOr(db, "materials", <<>>)
    IN
    IF ~HasKey(materials, material_category)
    THEN [raised |-> "", density |-> None]
    ELSE
    LET category_data == Get(materials, material_category)
        generic_key == material_category \o "_generic"
    IN
    IF InDict(category_data, material_subcategory)
    THEN [raised |-> "",
          density |-> GetOpt(Get(category_data, Val(material_subcategory)),
                             "density_kg_m3")]
    ELSE IF HasKey(category_data, generic_key)
    THEN [raised |-> "",
          density |-> GetOpt(Get(category_data, generic_key), "density_kg_m3")]
    ELSE IF Len(category_data) = 0
    THEN [raised |-> "IndexError", density |-> None]
    ELSE IF category_data[1][1] # ""
    THEN [raised |-> "",
          density |-> GetOpt(category_data[1][2], "density_kg_m3")]
    ELSE [raised |-> "", density |-> None]

\* get_reinforcement_ratio, as a ratio in 0.001: a percentage held in 0.1 %
\* divided by 100.0 is the same integer in 0.001.
get_reinforcement_ratio(db, element_type) ==
    LET ratios == GetOr(db, "reinforcement_ratios", <<>>)
        lower == Lower(element_type)
    IN
    IF HasKey(ratios, element_type) THEN Get(ratios, element_type)
    ELSE IF (Contains(lower, "structural") \/ Contains(lower, "slab"))
            /\ Contains(lower, "column")
    THEN GetOr(ratios, "column", 25)
    ELSE IF (Contains(lower, "structural") \/ Contains(lower, "slab"))
            /\ Contains(lower, "beam")
    THEN GetOr(ratios, "beam", 28)
    ELSE IF Contains(lower, "slab")
    THEN GetOr(ratios, "structural_slab", 20)
    ELSE IF Contains(lower, "structural") /\ Contains(lower, "wall")
    THEN GetOr(ratios, "structural_wall", 22)
    ELSE IF Contains(lower, "footing")
    THEN GetOr(ratios, "footing", 15)
    ELSE IF Contains(lower, "foundation")
    THEN IF Contains(lower, "wall")
         THEN GetOr(ratios, "foundation_wall", 18)
         ELSE GetOr(ratios, "foundation_slab", 18)
    ELSE 0

\* ---------------------------------------------------------------- element
\* kg CO2 per kg of reinforcement steel, in 0.01
steel_co2_factor == 165

ReinforcedTypes ==
    {"column", "beam", "slab", "slab_structural", "structural_wall",
     "load_bearing_wall", "footing", "foundation_wall", "foundation_slab"}

\* no_volume with the zero test left out: volume is None
no_volume_null_only(volume) == volume = None

\* volume is None or volume == 0
no_volume(volume) == volume = None \/ volume = Some(0)

\* reinforcement_warning that gives neither percentage nor steel mass.
reinforcement_warning_unquantified(rebar_ratio, rebar_mass) ==
    "Added reinforcement"

\* f"Added {rebar_ratio*100:.1f}% reinforcement ({rebar_mass:.2f} kg steel)",
\* rebar_ratio in 0.001 and rebar_mass in 1e-6 kg.
reinforcement_warning(rebar_ratio, rebar_mass) ==
    "Added " \o Fmt1(rebar_ratio) \o "% reinforcement ("
    \o Fmt2(RoundHalfEven(rebar_mass, 10000)) \o " kg steel)"

\* not material_category
no_category(material_category) ==
    material_category = None \/ material_category = Some("")

\* calculate_element_co2: (co2_kg, metadata).  co2_kg is the value before
\* rounding, in 1e-8 kg; metadata holds the rounded values in cents.
calculate_element_co2(element, db) ==
    LET metadata ==
            [global_id |-> GetOpt(element, "global_id"),
             element_name |-> GetOpt(element, "name"),
             element_type |-> GetOpt(element, "element_type"),
             material_category |-> None,
             volume_m3 |-> GetOpt(element, "volume_m3"),
             mass_kg |-> None,
             co2_kg |-> None,
             co2_factor_used |-> None,
             data_source |-> None,
             calculation_method |-> None,
             confidence |-> GetOr(element, "confidence", 50),
             warnings |-> <<>>,
             reinforcement_added |-> FALSE]
        volume == GetOpt(element, "volume_m3")
    IN
    IF no_volume(volume)
    THEN [raised |-> "", co2_kg |-> None,
          metadata |-> [metadata EXCEPT
              !.calculation_method = Some("skipped"),
              !.warnings = <<"No volume data - cannot calculate CO2">>]]
    ELSE
    LET material_primary == GetOr(element, "material_primary", <<>>)
        material_category == GetOpt(material_primary, "category")
        material_subcategory == GetOpt(material_primary, "subcategory")
    IN
    IF no_category(material_category)
    THEN [raised |-> "", co2_kg |-> None,
          metadata |-> [metadata EXCEPT
              !.calculation_method = Some("skipped"),
              !.warnings = <<"No material category - cannot calculate CO2">>]]
    ELSE
    LET found == find_co2_factor(db, Val(material_category), material_subcategory)
        md1 == [metadata EXCEPT !.material_category = material_category]
    IN
    IF found.raised # ""
    THEN [raised |-> found.raised, co2_kg |-> None, metadata |-> md1]
    ELSE IF found.co2_factor = None
    THEN [raised |-> "", co2_kg |-> None,
          metadata |-> [md1 EXCEPT
              !.calculation_method = Some("skipped"),
              !.warnings = found.warnings]]
    ELSE
    LET md2 == [md1 EXCEPT !.co2_factor_used = found.co2_factor,
                           !.data_source = Some(found.source),
                           !.warnings = found.warnings]
        dens == get_material_density(db, Val(material_category), material_subcategory)
    IN
    IF dens.raised # ""
    THEN [raised |-> dens.raised, co2_kg |-> None, metadata |-> md2]
    ELSE IF dens.density = None
    THEN [raised |-> "", co2_kg |-> None,
          metadata |-> [md2 EXCEPT
              !.calculation_method = Some("skipped"),
              !.warnings = Append(md2.warnings,
                  "Cannot determine density for " \o Val(material_category))]]
    ELSE
    LET mass_kg == Val(volume) * Val(dens.density)               \* in 0.001
        base_co2 == mass_kg * Val(found.co2_factor) * 10000      \* in 1e-8
        element_type == GetOpt(element, "element_type")
        eligible == /\ material_category = Some("concrete")
                    /\ element_type # None
                    /\ Val(element_type) \in ReinforcedTypes
        rebar_ratio == IF eligible
                       THEN get_reinforcement_ratio(db, Val(element_type))
                       ELSE 0
        rebar_mass == mass_kg * rebar_ratio                      \* in 1e-6
        rebar_co2 == rebar_mass * steel_co2_factor               \* in 1e-8
        add == eligible /\ rebar_ratio > 0
        co2_kg == IF add THEN base_co2 + rebar_co2 ELSE base_co2
    IN
    [raised |-> "", co2_kg |-> Some(co2_kg),
     metadata |-> [md2 EXCEPT
         !.mass_kg = Some(RoundHalfEven(mass_kg, 10)),
         !.reinforcement_added = add,
         !.warnings = IF add
                      THEN Append(md2.warnings,
                                  reinforcement_warning(rebar_ratio, rebar_mass))
                      ELSE md2.warnings,
         !.co2_kg = Some(RoundHalfEven(co2_kg, 1000000)),
         !.calculation_method = Some("volume_based")]]

\* ---------------------------------------------------------------- report
\* list.sort(key=..., reverse=True) and sorted(..., reverse=True) are stable:
\* elements of equal key keep their order.  OrderDesc(keys) is the order in
\* which the positions 1..Len(keys) end up.
RECURSIVE InsertDesc(_, _, _)
InsertDesc(j, order, keys) ==
    IF Len(order) = 0 THEN <<j>>
    ELSE IF keys[order[Len(order)]] >= keys[j] THEN Append(order, j)
    ELSE Append(InsertDesc(j, SubSeq(order, 1, Len(order) - 1), keys),
                order[Len(order)])

RECURSIVE OrderDescUpTo(_, _)
OrderDescUpTo(n, keys) ==
    IF n = 0 THEN <<>>
    ELSE InsertDesc(n, OrderDescUpTo(n - 1, keys), keys)

OrderDesc(keys) == OrderDescUpTo(Len(keys), keys)

\* sort_results with reverse=True left out: ascending order
sort_results_ascending(results) ==
    LET order == OrderDesc([i \in 1..Len(results) |-> -Val(results[i].co2_kg)])
    IN  [i \in 1..Len(results) |-> results[order[i]]]

\* sort_results that also empties the warnings of the records it moves past
\* another: the results are rewritten in place.
sort_results_clearing_warnings(results) ==
    LET order == OrderDesc([i \in 1..Len(results) |-> Val(results[i].co2_kg)])
    IN  [i \in 1..Len(results) |->
            IF order[i] = i THEN results[i]
            ELSE [results[order[i]] EXCEPT !.warnings = <<>>]]

\* detailed_results.sort(key=lambda x: x["co2_kg"], reverse=True)
sort_results(results) ==
    LET order == OrderDesc([i \in 1..Len(results) |-> Val(results[i].co2_kg)])
    IN  [i \in 1..Len(results) |-> results[order[i]]]

\* dict(sorted(by_category.items(), key=lambda x: x[1]["co2_kg"], reverse=True))
sort_categories(by_category) ==
    LET order == OrderDesc([i \in 1..Len(by_category) |-> by_category[i][2].co2_kg])
    IN  [i \in 1..Len(by_category) |-> by_category[order[i]]]

\* aggregate_by_category with a new category's count starting at 1 and then
\* incremented like any other: the first element of a category counts twice.
RECURSIVE aggregate_counting_first_twice(_)
aggregate_counting_first_twice(results) ==
    IF Len(results) = 0 THEN <<>>
    ELSE
    LET by_category ==
            aggregate_counting_first_twice(SubSeq(results, 1, Len(results) - 1))
        result == results[Len(results)]
    IN
    IF result.calculation_method = Some("skipped") THEN by_category
    ELSE
    LET category == Val(result.material_category)
        started == IF HasKey(by_category, category) THEN by_category
                   ELSE Append(by_category,
                               <<category, [count |-> 1, co2_kg |-> 0,
                                            mass_kg |-> 0, elements |-> <<>>]>>)
    IN
    [i \in 1..Len(started) |->
        IF started[i][1] = category
        THEN <<category,
               [count |-> started[i][2].count + 1,
                co2_kg |-> started[i][2].co2_kg + Val(result.co2_kg),
                mass_kg |-> started[i][2].mass_kg + Val(result.mass_kg),
                elements |-> Append(started[i][2].elements, result.global_id)]>>
        ELSE started[i]]

\* aggregate_by_category: a dict category -> totals, in order of first
\* appearance; co2_kg and mass_kg in cents.
RECURSIVE aggregate_by_category(_)
aggregate_by_category(results) ==
    IF Len(results) = 0 THEN <<>>
    ELSE
    LET by_category == aggregate_by_category(SubSeq(results, 1, Len(results) - 1))
        result == results[Len(results)]
    IN
    IF result.calculation_method = Some("skipped") THEN by_category
    ELSE
    LET category == Val(result.material_category)
        started == IF HasKey(by_category, category) THEN by_category
                   ELSE Append(by_category,
                               <<category, [count |-> 0, co2_kg |-> 0,
                                            mass_kg |-> 0, elements |-> <<>>]>>)
    IN
    [i \in 1..Len(started) |->
        IF started[i][1] = category
        THEN <<category,
               [count |-> started[i][2].count + 1,
                co2_kg |-> started[i][2].co2_kg + Val(result.co2_kg),
                mass_kg |-> started[i][2].mass_kg + Val(result.mass_kg),
                elements |-> Append(started[i][2].elements, result.global_id)]>>
        ELSE started[i]]

RECURSIVE SumCo2(_)
SumCo2(by_category) ==
    IF Len(by_category) = 0 THEN 0
    ELSE by_category[1][2].co2_kg + SumCo2(Tail(by_category))

\* with_percentages without the test for a zero total: the division is made
\* whatever the total, and raises when it is 0.
with_percentages_unguarded(by_category) ==
    LET total_co2_for_pct == SumCo2(by_category)
        divides_by_zero == Len(by_category) > 0 /\ total_co2_for_pct = 0
    IN
    [raised |-> IF divides_by_zero THEN "ZeroDivisionError" ELSE "",
     by_category |->
        IF divides_by_zero THEN by_category
        ELSE [i \in 1..Len(by_category) |->
                <<by_category[i][1],
                  [count |-> by_category[i][2].count,
                   co2_kg |-> by_category[i][2].co2_kg,
                   mass_kg |-> by_category[i][2].mass_kg,
                   elements |-> by_category[i][2].elements,
                   percentage |-> RoundQuot(by_category[i][2].co2_kg * 1000,
                                            total_co2_for_pct)]>>]]

\* The percentage pass of generate_report: each category's share of the
\* total in 0.1 %, 0 for every category when the total is 0.  raised names
\* the exception a division by zero would raise.
with_percentages(by_category) ==
    LET total_co2_for_pct == SumCo2(by_category)
        Pct(cat) == IF total_co2_for_pct # 0
                    THEN RoundQuot(cat.co2_kg * 1000, total_co2_for_pct)
                    ELSE 0
    IN
    [raised |-> "",
     by_category |->
        [i \in 1..Len(by_category) |->
            <<by_category[i][1],
              [count |-> by_category[i][2].count,
               co2_kg |-> by_category[i][2].co2_kg,
               mass_kg |-> by_category[i][2].mass_kg,
               elements |-> by_category[i][2].elements,
               percentage |-> Pct(by_category[i][2])]>>]]

\* summary_of with total_co2_kg rounded down to whole kilograms.
summary_truncating_co2(db, elems, n_calculated, n_skipped, co2, mass, now) ==
    [timestamp |-> now,
     input_file |-> "classified.json",
     database_version |-> GetOr(db, "version", "unknown"),
     total_elements |-> Len(elems),
     calculated |-> n_calculated,
     skipped |-> n_skipped,
     total_co2_kg |-> (co2 \div 100000000) * 100,
     total_mass_kg |-> mass,
     completeness_pct |-> IF Len(elems) > 0
                          THEN RoundHalfEven(n_calculated * 1000, Len(elems))
                          ELSE 0]

\* summary_of with the clock reading stored as database_version too.
summary_stamping_version(db, elems, n_calculated, n_skipped, co2, mass, now) ==
    [timestamp |-> now,
     input_file |-> "classified.json",
     database_version |-> now,
     total_elements |-> Len(elems),
     calculated |-> n_calculated,
     skipped |-> n_skipped,
     total_co2_kg |-> RoundHalfEven(co2, 1000000),
     total_mass_kg |-> mass,
     completeness_pct |-> IF Len(elems) > 0
                          THEN RoundHalfEven(n_calculated * 1000, Len(elems))
                          ELSE 0]

\* The summary of generate_report; timestamp is datetime.now().
summary_of(db, elems, n_calculated, n_skipped, co2, mass, now) ==
    LET total_elements == Len(elems)
    IN
    [timestamp |-> now,
     input_file |-> "classified.json",
     database_version |-> GetOr(db, "version", "unknown"),
     total_elements |-> total_elements,
     calculated |-> n_calculated,
     skipped |-> n_skipped,
     total_co2_kg |-> RoundHalfEven(co2, 1000000),
     total_mass_kg |-> mass,
     completeness_pct |-> IF total_elements > 0
                          THEN RoundHalfEven(n_calculated * 1000, total_elements)
                          ELSE 0]

\* ---------------------------------------------------------------- inputs
MaterialPrimary(category, subcategory) ==
    <<<<"category", category>>, <<"subcategory", subcategory>>>>

\* An element of the classified-elements file.  volume and material are
\* optional: a null or absent volume_m3 and an absent material_primary are
\* left out of the dict.
Element(id, element_type, volume, material) ==
    <<<<"global_id", id>>, <<"name", "element " \o id>>>>
    \o (IF element_type = None THEN <<>>
        ELSE <<<<"element_type", Val(element_type)>>>>)
    \o (IF volume = None THEN <<>> ELSE <<<<"volume_m3", Val(volume)>>>>)
    \o (IF material = None THEN <<>>
        ELSE <<<<"material_primary", Val(material)>>>>)

\* <<element_type, volume_m3, material_primary>> of the elements tried.
ElementShapes ==
    { <<Some("wall"), None, Some(MaterialPrimary("timber", "oak"))>>,
      <<None, Some(0), None>>,
      <<Some("wall"), Some(3), None>>,
      <<Some("wall"), Some(3), Some(MaterialPrimary("", "C30"))>>,
      <<Some("column"), Some(5), Some(MaterialPrimary("concrete", "C30"))>>,
      <<Some("Wall"), Some(3), Some(MaterialPrimary("concrete", "C30"))>>,
      <<Some("slab"), Some(3), Some(MaterialPrimary("concrete", "C99"))>>,
      <<Some("wall"), Some(3), Some(MaterialPrimary("brick", "clay"))>>,
      <<Some("wall"), Some(-3), Some(MaterialPrimary("brick", "clay"))>>,
      <<Some("beam"), Some(5), Some(MaterialPrimary("timber", "oak"))>>,
      <<Some("window"), Some(5), Some(MaterialPrimary("glass", "glass_x"))>>,
      <<Some("wall"), Some(3), Some(MaterialPrimary("foam", "foam_x"))>>,
      <<Some("wall"), Some(3), Some(<<<<"category", "misc">>>>)>> }

MaterialEntry(density, co2, source) ==
    <<<<"density_kg_m3", density>>, <<"embodied_co2_per_kg", co2>>,
      <<"source", source>>>>

\* A database with every kind of category: exact and generic entries
\* (concrete), no generic entry (brick), no entry at all (timber), an entry
\* without a factor (glass), one without a density (foam), and an entry
\* under the empty key (misc).  steel is no category of it.
DatabaseFull ==
    <<<<"version", "1.0">>,
      <<"materials",
        <<<<"concrete",
            <<<<"C30", MaterialEntry(246, 3, "EPD")>>,
              <<"concrete_generic", MaterialEntry(220, 5, "ICE")>>>>>>,
          <<"brick",
            <<<<"brick_standard", MaterialEntry(246, 3, "ICE")>>,
              <<"brick_b", MaterialEntry(180, 2, "ICE")>>>>>>,
          <<"timber", <<>>>>,
          <<"glass",
            <<<<"glass_x", <<<<"density_kg_m3", 250>>, <<"source", "ICE">>>>>>>>>>,
          <<"foam",
            <<<<"foam_x", <<<<"embodied_co2_per_kg", 1>>, <<"source", "EPD">>>>>>>>>>,
          <<"misc",
            <<<<"", MaterialEntry(100, 1, "ICE")>>,
              <<"m2", MaterialEntry(120, 2, "ICE")>>>>>>>>>>,
      <<"reinforcement_ratios",
        <<<<"column", 25>>, <<"beam", 28>>, <<"structural_slab", 21>>>>>>>>

\* A database without version and reinforcement_ratios, the generic entry
\* first and an entry without a source.
DatabaseSmall ==
    <<<<"materials",
        <<<<"concrete",
            <<<<"concrete_generic",
                <<<<"density_kg_m3", 200>>, <<"embodied_co2_per_kg", 2>>>>>>,
              <<"C30", MaterialEntry(230, 4, "EPD")>>>>>>,
          <<"brick",
            <<<<"brick_b", MaterialEntry(180, 2, "ICE")>>,
              <<"brick_standard", MaterialEntry(246, 3, "ICE")>>>>>>,
          <<"glass", <<<<"glass_x", MaterialEntry(250, 8, "ICE")>>>>>>>>>>>>

Databases == {DatabaseFull, DatabaseSmall}

\* The element lists of at most n elements, element i with global_id "e<i>".
RECURSIVE ElementLists(_)
ElementLists(n) ==
    IF n = 0 THEN {<<>>}
    ELSE LET shorter == ElementLists(n - 1)
         IN shorter \cup
            { Append(l, Element("e" \o ToString(Len(l) + 1), sh[1], sh[2], sh[3])) :
                l \in {x \in shorter : Len(x) = n - 1}, sh \in ElementShapes }

\* Values datetime.now() may return.
Clock == {"t1", "t2"}

\* The classified-elements files main loads: with an `elements` list, and
\* without the key.
ClassifiedFiles(lists) ==
    {<<<<"input", "classified.json">>>>}
      \cup {<<<<"input", "classified.json">>, <<"elements", l>>>> : l \in lists}

\* ---------------------------------------------------------------- generate_report
\* generate_report is called on an element list and a database.
Init ==
    /\ database \in Databases
    /\ elements \in ElementLists(MaxElems)
    /\ classified_data = None
    /\ output_file = None
    /\ tool = None
    /\ gen = None
    /\ runs = None
    /\ calc = None
    /\ session = None
    /\ batch = None
    /\ pc = "loop"
    /\ idx = 1
    /\ detailed_results = <<>>
    /\ skipped_elements = <<>>
    /\ total_co2 = 0
    /\ total_mass = 0
    /\ calculated_count = 0
    /\ report = None
    /\ exception = ""

\* One pass of the loop whose element is skipped.
AppendSkipped ==
    /\ pc = "loop"
    /\ idx <= Len(elements)
    /\ LET r == calculate_element_co2(elements[idx], database)
       IN /\ r.raised = ""
          /\ r.metadata.calculation_method = Some("skipped")
          /\ skipped_elements' = Append(skipped_elements, r.metadata)
    /\ idx' = idx + 1
    /\ UNCHANGED <<database, elements, pc, detailed_results, total_co2,
                   total_mass, calculated_count, report, exception>>
    /\ UNCHANGED <<classified_data, output_file, other_programs>>

\* One pass of the loop whose element is calculated.
AppendCalculated ==
    /\ pc = "loop"
    /\ idx <= Len(elements)
    /\ LET r == calculate_element_co2(elements[idx], database)
       IN /\ r.raised = ""
          /\ r.metadata.calculation_method # Some("skipped")
          /\ detailed_results' = Append(detailed_results, r.metadata)
          /\ total_co2' = total_co2 + Val(r.co2_kg)
          /\ total_mass' = total_mass + Val(r.metadata.mass_kg)
          /\ calculated_count' = calculated_count + 1
    /\ idx' = idx + 1
    /\ UNCHANGED <<database, elements, pc, skipped_elements, report, exception>>
    /\ UNCHANGED <<classified_data, output_file, other_programs>>

\* One pass of the loop in which calculate_element_co2 raises: the exception
\* leaves generate_report, which returns no report.
ElementRaises ==
    /\ pc = "loop"
    /\ idx <= Len(elements)
    /\ LET r == calculate_element_co2(elements[idx], database)
       IN /\ r.raised # ""
          /\ exception' = r.raised
    /\ pc' = "raised"
    /\ UNCHANGED <<database, elements, idx, detailed_results, skipped_elements,
                   total_co2, total_mass, calculated_count, report>>
    /\ UNCHANGED <<classified_data, output_file, other_programs>>

\* After the loop: sort, aggregate, percentages, summary, report.
BuildReport ==
    /\ pc = "loop"
    /\ idx > Len(elements)
    /\ \E now \in Clock :
        LET sorted == sort_results(detailed_results)
            pct == with_percentages(aggregate_by_category(sorted))
        IN /\ detailed_results' = sorted
           /\ IF pct.raised # ""
              THEN /\ pc' = "raised"
                   /\ exception' = pct.raised
                   /\ report' = report
              ELSE /\ pc' = "done"
                   /\ exception' = exception
                   /\ report' =
                        [summary |-> summary_of(database, elements, calculated_count,
                                                Len(skipped_elements), total_co2,
                                                total_mass, now),
                         by_category |-> sort_categories(pct.by_category),
                         detailed_results |-> sorted,
                         skipped_elements |-> skipped_elements]
    /\ UNCHANGED <<database, elements, idx, skipped_elements, total_co2,
                   total_mass, calculated_count>>
    /\ UNCHANGED <<classified_data, output_file, other_programs>>

\* main after generate_report has returned: save_json writes the report.
SaveReport ==
    /\ pc = "done"
    /\ output_file' = Some(report)
    /\ pc' = "saved"
    /\ UNCHANGED <<database, elements, idx, detailed_results, skipped_elements,
                   total_co2, total_mass, calculated_count, report, exception,
                   classified_data, other_programs>>

\* generate_report
Next == AppendSkipped \/ AppendCalculated \/ ElementRaises \/ BuildReport

\* main: generate_report, then save_json
NextMain == Next \/ SaveReport

Spec == Init /\ [][Next]_vars

\* ---------------------------------------------------------------- properties
Range(s) == {s[i] : i \in 1..Len(s)}

RECURSIVE SumSeq(_)
SumSeq(s) == IF Len(s) = 0 THEN 0 ELSE s[1] + SumSeq(Tail(s))

\* The positions of seq whose result carries the global_id of input element i.
ResultsFor(seq, i) ==
    {j \in 1..Len(seq) : seq[j].global_id = GetOpt(elements[i], "global_id")}

VolumeOf(element) == GetOpt(element, "volume_m3")
CategoryOf(element) ==
    GetOpt(GetOr(element, "material_primary", <<>>), "category")
SubcategoryOf(element) ==
    GetOpt(GetOr(element, "material_primary", <<>>), "subcategory")

\* C1: for every element list generate_report returns a report, and every
\* element has exactly one result, in exactly one of detailed_results
\* ('volume_based') and skipped_elements ('skipped'); the two lists together
\* hold total_elements results, and calculated and skipped are their lengths.
C1_Partition ==
    /\ pc # "raised"
    /\ pc = "loop" =>
          /\ Len(detailed_results) + Len(skipped_elements) = idx - 1
          /\ calculated_count = Len(detailed_results)
    /\ \A i \in 1..(idx - 1) :
          Cardinality(ResultsFor(detailed_results, i))
            + Cardinality(ResultsFor(skipped_elements, i)) = 1
    /\ \A r \in Range(detailed_results) : r.calculation_method = Some("volume_based")
    /\ \A r \in Range(skipped_elements) : r.calculation_method = Some("skipped")
    /\ pc = "done" =>
          /\ idx - 1 = Len(elements)
          /\ report.summary.total_elements = Len(elements)
          /\ Len(report.detailed_results) + Len(report.skipped_elements)
                = report.summary.total_elements
          /\ report.summary.calculated = Len(report.detailed_results)
          /\ report.summary.skipped = Len(report.skipped_elements)
          /\ \A i \in 1..Len(elements) :
                Cardinality(ResultsFor(report.detailed_results, i))
                  + Cardinality(ResultsFor(report.skipped_elements, i)) = 1

\* The element lacks data: no volume, no category, or a category that is not
\* in the database or has no entries there.
HasDataGap(element, db) ==
    \/ VolumeOf(element) \in {None, Some(0)}
    \/ CategoryOf(element) \in {None, Some("")}
    \/ ~HasKey(GetOr(db, "materials", <<>>), Val(CategoryOf(element)))
    \/ Len(Get(GetOr(db, "materials", <<>>), Val(CategoryOf(element)))) = 0

\* C2: no exception escapes generate_report, whatever data the elements lack:
\* the pass over an element with a data gap ends with the element in
\* skipped_elements, and the run ends in a report.
C2_NoExceptionEscapes ==
    /\ pc # "raised"
    /\ exception = ""
    /\ \A i \in 1..(idx - 1) :
          HasDataGap(elements[i], database)
             => ResultsFor(skipped_elements, i) # {}

\* The entry the three tiers select for (category, subcategory) in a category
\* that has entries: exact key, else '<category>_generic', else first key.
SelectedEntry(category_data, category, subcategory) ==
    IF InDict(category_data, subcategory)
    THEN Get(category_data, Val(subcategory))
    ELSE IF HasKey(category_data, category \o "_generic")
    THEN Get(category_data, category \o "_generic")
    ELSE category_data[1][2]

\* C3: for every element resolved in the run whose category is in the
\* database (and has an entry), find_co2_factor returns the factor and source
\* of the entry the tiers select, with no warning exactly when the
\* subcategory key matched.
C3_TierOrder ==
    \A i \in 1..(idx - 1) :
        LET category == CategoryOf(elements[i])
            subcategory == SubcategoryOf(elements[i])
            materials == GetOr(database, "materials", <<>>)
        IN  (/\ category \notin {None, Some("")}
             /\ HasKey(materials, Val(category))
             /\ Len(Get(materials, Val(category))) > 0)
            =>
            LET category_data == Get(materials, Val(category))
                entry == SelectedEntry(category_data, Val(category), subcategory)
                found == find_co2_factor(database, Val(category), subcategory)
            IN  /\ found.raised = ""
                /\ found.co2_factor = GetOpt(entry, "embodied_co2_per_kg")
                /\ found.source = GetOr(entry, "source", "unknown")
                /\ (found.warnings = <<>>) <=> InDict(category_data, subcategory)

\* C4: an element without volume is skipped with the volume warning alone and
\* an element with volume but without category with the category warning
\* alone, neither with anything read from the database; with both present,
\* a skip comes from the factor (the resolver's warnings) or, after it, from
\* the density; and only a lookup, after both checks, can raise.
C4_CheckOrder ==
    /\ \A i \in 1..(idx - 1) :
        LET e == elements[i]
            mine == ResultsFor(skipped_elements, i)
        IN  IF VolumeOf(e) \in {None, Some(0)}
            THEN \E j \in mine :
                    /\ skipped_elements[j].warnings =
                          <<"No volume data - cannot calculate CO2">>
                    /\ skipped_elements[j].material_category = None
                    /\ skipped_elements[j].co2_factor_used = None
                    /\ skipped_elements[j].data_source = None
            ELSE IF CategoryOf(e) \in {None, Some("")}
            THEN \E j \in mine :
                    /\ skipped_elements[j].warnings =
                          <<"No material category - cannot calculate CO2">>
                    /\ skipped_elements[j].material_category = None
                    /\ skipped_elements[j].co2_factor_used = None
                    /\ skipped_elements[j].data_source = None
            ELSE \A j \in mine :
                    LET r == skipped_elements[j]
                        found == find_co2_factor(database, Val(CategoryOf(e)),
                                                 SubcategoryOf(e))
                    IN  /\ r.material_category = CategoryOf(e)
                        /\ IF r.co2_factor_used = None
                           THEN r.warnings = found.warnings
                           ELSE r.warnings = Append(found.warnings,
                                   "Cannot determine density for "
                                   \o Val(CategoryOf(e)))
    /\ (pc = "raised" /\ exception = "IndexError") =>
          /\ idx <= Len(elements)
          /\ VolumeOf(elements[idx]) \notin {None, Some(0)}
          /\ CategoryOf(elements[idx]) \notin {None, Some("")}

\* A finished run over a database in which the timber lookup raises, with
\* an element of category timber and null volume and an element with
\* volume and no category.
C4_Witness ==
    /\ pc = "done"
    /\ database = DatabaseFull
    /\ \E i \in 1..Len(elements) :
          /\ VolumeOf(elements[i]) = None
          /\ CategoryOf(elements[i]) = Some("timber")
    /\ \E i \in 1..Len(elements) :
          /\ VolumeOf(elements[i]) \notin {None, Some(0)}
          /\ CategoryOf(elements[i]) \in {None, Some("")}
    /\ \E i \in 1..Len(elements) :
          /\ VolumeOf(elements[i]) = Some(0)
          /\ CategoryOf(elements[i]) = None

\* C5: every skipped result has mass_kg, co2_kg, co2_factor_used and
\* data_source null and calculation_method 'skipped'.
C5_SkippedAllNull ==
    \A r \in Range(skipped_elements) :
        /\ r.mass_kg = None
        /\ r.co2_kg = None
        /\ r.co2_factor_used = None
        /\ r.data_source = None
        /\ r.calculation_method = Some("skipped")

\* C6: every skipped result carries at least one warning.
C6_SkippedHasWarning ==
    \A r \in Range(skipped_elements) : Len(r.warnings) >= 1

\* The input position of a result.
PositionOf(r) ==
    CHOOSE i \in 1..Len(elements) : GetOpt(elements[i], "global_id") = r.global_id

\* C7: in a returned report detailed_results is in non-increasing order of
\* co2_kg, and so is by_category in its iteration order.
C7_Sorted ==
    pc = "done" =>
        /\ \A j \in 1..(Len(report.detailed_results) - 1) :
              Val(report.detailed_results[j].co2_kg)
                 >= Val(report.detailed_results[j + 1].co2_kg)
        /\ \A j \in 1..(Len(report.by_category) - 1) :
              report.by_category[j][2].co2_kg >= report.by_category[j + 1][2].co2_kg

\* A report whose first result came later in the input than its second, and
\* whose first category has more CO2 than its second.
C7_Witness ==
    /\ pc = "done"
    /\ Len(report.detailed_results) >= 2
    /\ Val(report.detailed_results[1].co2_kg) > Val(report.detailed_results[2].co2_kg)
    /\ PositionOf(report.detailed_results[1]) > PositionOf(report.detailed_results[2])
    /\ Len(report.by_category) >= 2
    /\ report.by_category[1][2].co2_kg > report.by_category[2][2].co2_kg
    /\ report.detailed_results[1].material_category # Some(report.by_category[1][1])

\* The sum of a field over the results of one category.
Co2OfCategory(results, category) ==
    SumSeq([j \in 1..Len(results) |->
               IF results[j].material_category = Some(category)
               THEN Val(results[j].co2_kg) ELSE 0])
MassOfCategory(results, category) ==
    SumSeq([j \in 1..Len(results) |->
               IF results[j].material_category = Some(category)
               THEN Val(results[j].mass_kg) ELSE 0])

\* C8: by_category has one entry for each material_category of
\* detailed_results and no other; count, co2_kg and mass_kg of an entry are
\* the number and the sums over the detailed_results of its category, and
\* the counts add up to summary.calculated.
C8_ByCategory ==
    pc = "done" =>
        LET by_category == report.by_category
            results == report.detailed_results
        IN  /\ {by_category[i][1] : i \in 1..Len(by_category)}
                  = {Val(r.material_category) : r \in Range(results)}
            /\ \A i, j \in 1..Len(by_category) :
                  by_category[i][1] = by_category[j][1] => i = j
            /\ \A i \in 1..Len(by_category) :
                  LET category == by_category[i][1]
                      totals == by_category[i][2]
                  IN  /\ totals.count =
                            Cardinality({j \in 1..Len(results) :
                                results[j].material_category = Some(category)})
                      /\ totals.co2_kg = Co2OfCategory(results, category)
                      /\ totals.mass_kg = MassOfCategory(results, category)
            /\ SumSeq([i \in 1..Len(by_category) |-> by_category[i][2].count])
                  = report.summary.calculated

\* A report with two results of one category and a skipped element whose
\* category was resolved and has no entry in by_category.
C8_Witness ==
    /\ pc = "done"
    /\ \E i \in 1..Len(report.by_category) : report.by_category[i][2].count >= 2
    /\ \E r \in Range(report.skipped_elements) :
          /\ r.material_category # None
          /\ \A i \in 1..Len(report.by_category) :
                Some(report.by_category[i][1]) # r.material_category

\* C9: summary.total_co2_kg is the sum of co2_kg over detailed_results within
\* 0.005 per element plus 0.005, and summary.total_mass_kg the sum of mass_kg
\* within the same tolerance (all in cents, so twice the difference is at
\* most the number of results plus one).
C9_Conservation ==
    pc = "done" =>
        LET results == report.detailed_results
            co2 == SumSeq([j \in 1..Len(results) |-> Val(results[j].co2_kg)])
            mass == SumSeq([j \in 1..Len(results) |-> Val(results[j].mass_kg)])
        IN  /\ 2 * Abs(report.summary.total_co2_kg - co2) <= Len(results) + 1
            /\ 2 * Abs(report.summary.total_mass_kg - mass) <= Len(results) + 1

\* A report of two or more results whose total differs from the sum of the
\* rounded co2_kg values.
C9_Witness ==
    /\ pc = "done"
    /\ Len(report.detailed_results) >= 2
    /\ report.summary.total_co2_kg
          # SumSeq([j \in 1..Len(report.detailed_results) |->
                       Val(report.detailed_results[j].co2_kg)])
    /\ report.summary.total_mass_kg # 0

\* C10: when the co2_kg of the calculated elements add up to 0, every
\* category's percentage in the report is 0, and no division by zero is
\* ever made.
C10_ZeroTotal ==
    /\ exception # "ZeroDivisionError"
    /\ pc = "done" =>
          (SumSeq([j \in 1..Len(report.detailed_results) |->
                      Val(report.detailed_results[j].co2_kg)]) = 0
             => \A i \in 1..Len(report.by_category) :
                   report.by_category[i][2].percentage = 0)

\* A report with two categories of non-zero CO2 that cancel.
C10_Witness ==
    /\ pc = "done"
    /\ Len(report.by_category) >= 2
    /\ \A i \in 1..Len(report.by_category) : report.by_category[i][2].co2_kg # 0
    /\ SumCo2(report.by_category) = 0
    /\ \A i \in 1..Len(report.by_category) : report.by_category[i][2].percentage = 0

\* ---------------------------------------------------------------- small quantities
\* <<element_type, volume_m3, material_primary>> of elements of 0.1 and
\* 0.3 m3 in light materials: an element's CO2 is 0.004 or 0.012 kg.  One is
\* resolved through the generic entry of its category, one has no volume,
\* one is of a category without entries.
ElementShapesGrams ==
    { <<Some("wall"), Some(1), Some(MaterialPrimary("dust", "dust_x"))>>,
      <<Some("wall"), Some(3), Some(MaterialPrimary("dust", "dust_x"))>>,
      <<Some("wall"), Some(1), Some(MaterialPrimary("grit", "grit_x"))>>,
      <<Some("wall"), Some(3), Some(MaterialPrimary("grit", "fine"))>>,
      <<Some("wall"), None, Some(MaterialPrimary("dust", "dust_x"))>>,
      <<Some("beam"), Some(1), Some(MaterialPrimary("timber", "oak"))>> }

\* A database of materials of 0.4 kg/m3 and 0.1 kg CO2 per kg, one category
\* with a generic entry, and a category without entries.
DatabaseGrams ==
    <<<<"version", "2.0">>,
      <<"materials",
        <<<<"dust", <<<<"dust_x", MaterialEntry(40, 1, "ICE")>>>>>>,
          <<"grit",
            <<<<"grit_x", MaterialEntry(40, 1, "EPD")>>,
              <<"grit_generic", MaterialEntry(40, 1, "ICE")>>>>>>,
          <<"timber", <<>>>>>>>>>>

\* The element lists of at most n elements of the given shapes, element i
\* with global_id "e<i>".
RECURSIVE ElementListsOf(_, _)
ElementListsOf(shapes, n) ==
    IF n = 0 THEN {<<>>}
    ELSE LET shorter == ElementListsOf(shapes, n - 1)
         IN shorter \cup
            { Append(l, Element("e" \o ToString(Len(l) + 1), sh[1], sh[2], sh[3])) :
                l \in {x \in shorter : Len(x) = n - 1}, sh \in shapes }

\* main on the small quantities: it has loaded both files and taken
\* classified_data.get("elements", []); generate_report is about to enter
\* its loop.
InitGrams ==
    /\ database = DatabaseGrams
    /\ classified_data \in ClassifiedFiles(ElementListsOf(ElementShapesGrams, MaxElems))
    /\ elements = GetOr(classified_data, "elements", <<>>)
    /\ output_file = None
    /\ tool = None
    /\ gen = None
    /\ runs = None
    /\ calc = None
    /\ session = None
    /\ batch = None
    /\ pc = "loop"
    /\ idx = 1
    /\ detailed_results = <<>>
    /\ skipped_elements = <<>>
    /\ total_co2 = 0
    /\ total_mass = 0
    /\ calculated_count = 0
    /\ report = None
    /\ exception = ""

SpecGrams == InitGrams /\ [][NextMain]_vars

RECURSIVE SumPercentage(_)
SumPercentage(by_category) ==
    IF Len(by_category) = 0 THEN 0
    ELSE by_category[1][2].percentage + SumPercentage(Tail(by_category))

\* C11: in every report with summary.total_co2_kg > 0, each category's
\* percentage is its co2_kg over the total of the categories times 100,
\* rounded to 1 decimal, and the percentages of all categories sum to 100
\* within 0.05 per category.
C11_PercentagesSum ==
    (pc \in {"done", "saved"} /\ report.summary.total_co2_kg > 0) =>
        LET by_category == report.by_category
            total == SumCo2(by_category)
        IN /\ \A i \in 1..Len(by_category) :
                total # 0 =>
                    by_category[i][2].percentage
                        = RoundQuot(by_category[i][2].co2_kg * 1000, total)
           /\ 2 * Abs(SumPercentage(by_category) - 1000) <= Len(by_category)

\* ---------------------------------------------------------------- gen_report.py
\* kg CO2 per kg of reinforcement steel in gen_report.py, in 0.01
gen_steel_co2_factor == 165

\* f_co2: (factor, source, warnings), or the KeyError of a missing field.
f_co2(d_db, mc, ms) ==
    LET Entry(entry, w) ==
            IF ~HasKey(entry, "embodied_co2_per_kg") \/ ~HasKey(entry, "source")
            THEN [raised |-> "KeyError", cf |-> None, src |-> "", w |-> <<>>]
            ELSE [raised |-> "", cf |-> Some(Get(entry, "embodied_co2_per_kg")),
                  src |-> Get(entry, "source"), w |-> w]
    IN
    IF ~HasKey(d_db, "materials")
    THEN [raised |-> "KeyError", cf |-> None, src |-> "", w |-> <<>>]
    ELSE IF ~HasKey(Get(d_db, "materials"), mc)
    THEN [raised |-> "", cf |-> None, src |-> "", w |-> <<>>]
    ELSE
    LET cd == Get(Get(d_db, "materials"), mc)
        gk == mc \o "_generic"
    IN
    IF InDict(cd, ms) THEN Entry(Get(cd, Val(ms)), <<>>)
    ELSE IF HasKey(cd, gk) THEN Entry(Get(cd, gk), <<>>)
    ELSE IF Len(cd) > 0 /\ cd[1][1] # ""
    THEN Entry(cd[1][2], <<"fallback:" \o cd[1][1]>>)
    ELSE [raised |-> "", cf |-> None, src |-> "", w |-> <<"not_found">>]

\* f_den: the density, or the KeyError of a missing field.
f_den(d_db, mc, ms) ==
    LET Entry(entry) ==
            IF ~HasKey(entry, "density_kg_m3")
            THEN [raised |-> "KeyError", dn |-> None]
            ELSE [raised |-> "", dn |-> Some(Get(entry, "density_kg_m3"))]
    IN
    IF ~HasKey(d_db, "materials") THEN [raised |-> "KeyError", dn |-> None]
    ELSE IF ~HasKey(Get(d_db, "materials"), mc) THEN [raised |-> "", dn |-> None]
    ELSE
    LET cd == Get(Get(d_db, "materials"), mc)
        gk == mc \o "_generic"
    IN
    IF InDict(cd, ms) THEN Entry(Get(cd, Val(ms)))
    ELSE IF HasKey(cd, gk) THEN Entry(Get(cd, gk))
    ELSE IF Len(cd) > 0 /\ cd[1][1] # "" THEN Entry(cd[1][2])
    ELSE [raised |-> "", dn |-> None]

\* f_bar: the reinforcement ratio in 0.001, or the KeyError of a database
\* without reinforcement_ratios.  The loop returns at the first of column,
\* beam, slab, footing found in the type; wall returns nothing.
f_bar(d_db, et) ==
    IF ~HasKey(d_db, "reinforcement_ratios")
    THEN [raised |-> "KeyError", rb |-> 0]
    ELSE
    LET rs == Get(d_db, "reinforcement_ratios")
        lower == Lower(et)
    IN
    [raised |-> "",
     rb |-> IF HasKey(rs, et) THEN Get(rs, et)
            ELSE IF Contains(lower, "column") THEN GetOr(rs, "column", 25)
            ELSE IF Contains(lower, "beam") THEN GetOr(rs, "beam", 28)
            ELSE IF Contains(lower, "slab") THEN GetOr(rs, "structural_slab", 20)
            ELSE IF Contains(lower, "footing") THEN GetOr(rs, "footing", 15)
            ELSE 0]

\* One pass of the loop over els: the record r, whether it goes to skip, and
\* the unrounded CO2 c in 1e-8 kg; raised names an escaping exception.
gen_element(e, d_db) ==
    LET v == GetOpt(e, "volume_m3")
        mp == GetOr(e, "material_primary", <<>>)
        mc == GetOpt(mp, "category")
        ms == GetOpt(mp, "subcategory")
        et == GetOr(e, "element_type", "")
        r == [global_id |-> GetOpt(e, "global_id"),
              element_name |-> GetOpt(e, "name"),
              element_type |-> et,
              material_category |-> mc,
              volume_m3 |-> v,
              mass_kg |-> None,
              co2_kg |-> None,
              co2_factor_used |-> None,
              data_source |-> None,
              calculation_method |-> None,
              confidence |-> GetOr(e, "confidence", 50),
              warnings |-> <<>>]
        Raise(x) == [raised |-> x, skipped |-> FALSE, r |-> r, c |-> 0]
        Skip(w) == [raised |-> "", skipped |-> TRUE, c |-> 0,
                    r |-> [r EXCEPT !.calculation_method = Some("skipped"),
                                    !.warnings = w]]
    IN
    IF ~HasKey(e, "global_id") \/ ~HasKey(e, "name") THEN Raise("KeyError")
    ELSE IF v = None \/ v = Some(0) THEN Skip(<<"No volume">>)
    ELSE IF mc = None \/ mc = Some("") THEN Skip(<<"No material">>)
    ELSE
    LET found == f_co2(d_db, Val(mc), ms)
    IN
    IF found.raised # "" THEN Raise(found.raised)
    ELSE IF found.cf = None THEN Skip(found.w)
    ELSE
    LET dens == f_den(d_db, Val(mc), ms)
    IN
    IF dens.raised # "" THEN Raise(dens.raised)
    ELSE IF dens.dn = None THEN Skip(<<"No density">>)
    ELSE
    LET m == Val(v) * Val(dens.dn)                               \* in 0.001
        base == m * Val(found.cf) * 10000                        \* in 1e-8
        lower == Lower(et)
        eligible == /\ mc = Some("concrete")
                    /\ \E t \in {"column", "beam", "slab", "footing", "wall"} :
                          Contains(lower, t)
        bar == IF eligible THEN f_bar(d_db, et) ELSE [raised |-> "", rb |-> 0]
        c == IF bar.rb > 0 THEN base + m * bar.rb * gen_steel_co2_factor ELSE base
    IN
    IF bar.raised # "" THEN Raise(bar.raised)
    ELSE [raised |-> "", skipped |-> FALSE, c |-> c,
          r |-> [r EXCEPT !.mass_kg = Some(RoundHalfEven(m, 10)),
                          !.co2_kg = Some(RoundHalfEven(c, 1000000)),
                          !.co2_factor_used = found.cf,
                          !.data_source = Some(found.src),
                          !.warnings = found.w,
                          !.calculation_method = Some("volume_based")]]

\* bc before the percentages: category -> count, co2_kg, mass_kg in order of
\* first appearance in det.
RECURSIVE gen_by_category(_)
gen_by_category(det) ==
    IF Len(det) = 0 THEN <<>>
    ELSE
    LET bc == gen_by_category(SubSeq(det, 1, Len(det) - 1))
        r == det[Len(det)]
        category == Val(r.material_category)
        started == IF HasKey(bc, category) THEN bc
                   ELSE Append(bc, <<category,
                                     [count |-> 0, co2_kg |-> 0, mass_kg |-> 0]>>)
    IN
    [i \in 1..Len(started) |->
        IF started[i][1] = category
        THEN <<category,
               [count |-> started[i][2].count + 1,
                co2_kg |-> started[i][2].co2_kg + Val(r.co2_kg),
                mass_kg |-> started[i][2].mass_kg + Val(r.mass_kg)]>>
        ELSE started[i]]

\* Quotient and remainder of (q * t + r) * 10^k by t, for t > 0 and
\* 0 <= r < t, by long division.
RECURSIVE LongDiv(_, _, _, _)
LongDiv(q, r, t, k) ==
    IF k = 0 THEN <<q, r>>
    ELSE LongDiv(q * 10 + (r * 10) \div t, (r * 10) % t, t, k - 1)

\* round(x * 10^k / t) for t # 0, half to even.
ScaledRound(x, t, k) ==
    LET d == LongDiv(Abs(x) \div Abs(t), Abs(x) % Abs(t), Abs(t), k)
        up == 2 * d[2] > Abs(t) \/ (2 * d[2] = Abs(t) /\ d[1] % 2 = 1)
        magnitude == IF up THEN d[1] + 1 ELSE d[1]
    IN  IF (x < 0) # (t < 0) THEN -magnitude ELSE magnitude

\* The percentage pass over bc: co2_kg in cents over tot_co2 in 1e-8 kg,
\* times 100, in 0.1 %; 0 when tot_co2 is 0.
gen_percentages(bc, tot_co2) ==
    [i \in 1..Len(bc) |->
        <<bc[i][1],
          [count |-> bc[i][2].count,
           co2_kg |-> bc[i][2].co2_kg,
           mass_kg |-> bc[i][2].mass_kg,
           percentage |-> IF tot_co2 # 0
                          THEN ScaledRound(bc[i][2].co2_kg, tot_co2, 9)
                          ELSE 0]>>]

\* The summary of rep, or the exception its evaluation raises: KeyError for
\* d_db['version'], then ZeroDivisionError for len(det)/len(els).
gen_summary(d_db, els, det, skip, tot_co2, tot_m, now) ==
    IF ~HasKey(d_db, "version") THEN [raised |-> "KeyError", summary |-> None]
    ELSE IF Len(els) = 0 THEN [raised |-> "ZeroDivisionError", summary |-> None]
    ELSE [raised |-> "",
          summary |->
            [timestamp |-> now,
             input_file |-> "all_classified_elements.json",
             database_version |-> Get(d_db, "version"),
             total_elements |-> Len(els),
             calculated |-> Len(det),
             skipped |-> Len(skip),
             total_co2_kg |-> RoundHalfEven(tot_co2, 1000000),
             total_mass_kg |-> tot_m,
             completeness_pct |-> RoundHalfEven(Len(det) * 1000, Len(els))]]

\* <<element_type, volume_m3, material_primary>> of the elements gen_report.py
\* is run on.
ElementShapesGen ==
    { <<Some("wall"), Some(1), Some(MaterialPrimary("dust", "dust_x"))>>,
      <<Some("wall"), None, Some(MaterialPrimary("dust", "dust_x"))>>,
      <<None, Some(1), None>>,
      <<Some("wall"), Some(1), Some(MaterialPrimary("steel", "s235"))>>,
      <<Some("beam"), Some(1), Some(MaterialPrimary("timber", "oak"))>>,
      <<Some("column"), Some(1), Some(MaterialPrimary("concrete", "C30"))>>,
      <<Some("slab"), Some(3), Some(MaterialPrimary("concrete", "C99"))>>,
      <<Some("wall"), Some(1), Some(MaterialPrimary("brick", "clay"))>>,
      <<Some("window"), Some(1), Some(MaterialPrimary("glass", "glass_x"))>>,
      <<Some("wall"), Some(1), Some(MaterialPrimary("foam", "foam_x"))>> }

\* A database with version and reinforcement_ratios: exact and generic
\* entries (concrete), no generic entry (brick), no entry (timber), an entry
\* without a factor (glass) and one without a density (foam).
DatabaseGen ==
    <<<<"version", "2.0">>,
      <<"materials",
        <<<<"dust", <<<<"dust_x", MaterialEntry(40, 1, "ICE")>>>>>>,
          <<"concrete",
            <<<<"C30", MaterialEntry(40, 1, "EPD")>>,
              <<"concrete_generic", MaterialEntry(50, 2, "ICE")>>>>>>,
          <<"brick", <<<<"brick_standard", MaterialEntry(40, 2, "ICE")>>>>>>,
          <<"timber", <<>>>>,
          <<"glass",
            <<<<"glass_x", <<<<"density_kg_m3", 40>>, <<"source", "ICE">>>>>>>>>>,
          <<"foam",
            <<<<"foam_x", <<<<"embodied_co2_per_kg", 1>>, <<"source", "EPD">>>>>>>>>>>>>>,
      <<"reinforcement_ratios", <<<<"column", 25>>>>>>>>

\* A database without version and reinforcement_ratios.
DatabaseGenBare ==
    <<<<"materials",
        <<<<"dust", <<<<"dust_x", MaterialEntry(40, 1, "ICE")>>>>>>,
          <<"concrete", <<<<"C30", MaterialEntry(40, 1, "EPD")>>>>>>>>>>>>

\* d_in and d_db are loaded; the script is about to read d_in['elements'].
InitGen ==
    /\ database \in {DatabaseGen, DatabaseGenBare}
    /\ classified_data \in ClassifiedFiles(ElementListsOf(ElementShapesGen, MaxElems))
    /\ elements = <<>>
    /\ output_file = None
    /\ gen = [det |-> <<>>, skip |-> <<>>, tot_co2 |-> 0, tot_m |-> 0, rep |-> None]
    /\ tool = None
    /\ runs = None
    /\ calc = None
    /\ session = None
    /\ batch = None
    /\ pc = "start"
    /\ idx = 1
    /\ detailed_results = <<>>
    /\ skipped_elements = <<>>
    /\ total_co2 = 0
    /\ total_mass = 0
    /\ calculated_count = 0
    /\ report = None
    /\ exception = ""

\* The variables gen_report.py leaves alone: those of generate_report, of the
\* tool and of the side-by-side invocations.
gen_frame ==
    <<database, classified_data, detailed_results, skipped_elements, total_co2,
      total_mass, calculated_count, report, tool, runs,
      calc, session, batch>>

\* els = d_in['elements']
GenElements ==
    /\ pc = "start"
    /\ IF HasKey(classified_data, "elements")
       THEN /\ elements' = Get(classified_data, "elements")
            /\ pc' = "loop"
            /\ exception' = exception
       ELSE /\ elements' = elements
            /\ pc' = "raised"
            /\ exception' = "KeyError"
    /\ UNCHANGED <<idx, gen, output_file, gen_frame>>

\* One pass of the loop that ends in skip.append(r).
GenSkip ==
    /\ pc = "loop"
    /\ idx <= Len(elements)
    /\ LET x == gen_element(elements[idx], database)
       IN /\ x.raised = ""
          /\ x.skipped
          /\ gen' = [gen EXCEPT !.skip = Append(gen.skip, x.r)]
    /\ idx' = idx + 1
    /\ UNCHANGED <<elements, pc, exception, output_file, gen_frame>>

\* One pass of the loop that ends in det.append(r).
GenAppend ==
    /\ pc = "loop"
    /\ idx <= Len(elements)
    /\ LET x == gen_element(elements[idx], database)
       IN /\ x.raised = ""
          /\ ~x.skipped
          /\ gen' = [gen EXCEPT !.det = Append(gen.det, x.r),
                                !.tot_co2 = gen.tot_co2 + x.c,
                                !.tot_m = gen.tot_m + Val(x.r.mass_kg)]
    /\ idx' = idx + 1
    /\ UNCHANGED <<elements, pc, exception, output_file, gen_frame>>

\* One pass of the loop that raises: the script ends.
GenRaises ==
    /\ pc = "loop"
    /\ idx <= Len(elements)
    /\ LET x == gen_element(elements[idx], database)
       IN /\ x.raised # ""
          /\ exception' = x.raised
    /\ pc' = "raised"
    /\ UNCHANGED <<elements, idx, gen, output_file, gen_frame>>

\* After the loop: sort det, build bc and rep, write F_OUT.
GenReport ==
    /\ pc = "loop"
    /\ idx > Len(elements)
    /\ \E now \in Clock :
        LET det == sort_results(gen.det)
            bc == sort_categories(gen_percentages(gen_by_category(det), gen.tot_co2))
            s == gen_summary(database, elements, det, gen.skip, gen.tot_co2,
                             gen.tot_m, now)
        IN /\ s.raised = ""
           /\ gen' = [gen EXCEPT !.det = det,
                                 !.rep = Some([summary |-> s.summary,
                                               by_category |-> bc,
                                               detailed_results |-> det,
                                               skipped_elements |-> gen.skip])]
           /\ output_file' = gen'.rep
    /\ pc' = "done"
    /\ UNCHANGED <<elements, idx, exception, gen_frame>>

\* After the loop, the evaluation of rep raises: nothing is written.
GenReportRaises ==
    /\ pc = "loop"
    /\ idx > Len(elements)
    /\ LET det == sort_results(gen.det)
           s == gen_summary(database, elements, det, gen.skip, gen.tot_co2,
                            gen.tot_m, "t1")
       IN /\ s.raised # ""
          /\ gen' = [gen EXCEPT !.det = det]
          /\ exception' = s.raised
    /\ pc' = "raised"
    /\ UNCHANGED <<elements, idx, output_file, gen_frame>>

NextGen ==
    \/ GenElements
    \/ GenSkip
    \/ GenAppend
    \/ GenRaises
    \/ GenReport
    \/ GenReportRaises

SpecGen == InitGen /\ [][NextGen]_vars

\* C12: summary.completeness_pct is calculated / total_elements x 100
\* rounded to 1 decimal, and on an empty element list (read from a database
\* with a version) gen_report.py ends with a report of total_elements 0,
\* calculated 0, skipped 0, empty detailed_results and skipped_elements and
\* completeness_pct 0.
C12_EmptyListReport ==
    /\ gen.rep # None =>
          LET summary == Val(gen.rep).summary
          IN summary.completeness_pct
               = IF summary.total_elements > 0
                 THEN RoundHalfEven(summary.calculated * 1000, summary.total_elements)
                 ELSE 0
    /\ (/\ pc \in {"done", "raised"}
        /\ HasKey(classified_data, "elements")
        /\ Len(Get(classified_data, "elements")) = 0
        /\ HasKey(database, "version")) =>
          /\ pc = "done"
          /\ gen.rep # None
          /\ Val(gen.rep).summary.total_elements = 0
          /\ Val(gen.rep).summary.calculated = 0
          /\ Val(gen.rep).summary.skipped = 0
          /\ Val(gen.rep).summary.completeness_pct = 0
          /\ Val(gen.rep).detailed_results = <<>>
          /\ Val(gen.rep).skipped_elements = <<>>

\* C13: when the classified-elements file has no `elements` key the run
\* fails: generate_report returns no report and main writes no output file.
C13_MissingElementsFails ==
    ~HasKey(classified_data, "elements") =>
        /\ report = None
        /\ output_file = None
        /\ pc \in {"loop", "raised"}

\* ---------------------------------------------------------------- invocations side by side
\* Longest element batch of an invocation that runs beside another.
MaxBatch == 2

Invocations == {1, 2}

\* <<element_type, volume_m3, material_primary>> of the batches' elements:
\* reinforced concrete, a first-entry fallback, no volume, and a category
\* whose lookup raises.
ElementShapesTwo ==
    { <<Some("column"), Some(5), Some(MaterialPrimary("concrete", "C30"))>>,
      <<Some("wall"), Some(3), Some(MaterialPrimary("brick", "clay"))>>,
      <<Some("wall"), None, Some(MaterialPrimary("brick", "clay"))>>,
      <<Some("beam"), Some(5), Some(MaterialPrimary("timber", "oak"))>> }

\* The locals of one invocation of generate_report at its first line.
new_run(elems) ==
    [elements |-> elems, idx |-> 1, pc |-> "loop", detailed_results |-> <<>>,
     skipped_elements |-> <<>>, total_co2 |-> 0, total_mass |-> 0,
     calculated_count |-> 0, report |-> None, exception |-> ""]

\* One pass of the loop of generate_report on the locals of one invocation.
run_element(run, db) ==
    LET r == calculate_element_co2(run.elements[run.idx], db)
    IN
    IF r.raised # ""
    THEN [run EXCEPT !.pc = "raised", !.exception = r.raised]
    ELSE IF r.metadata.calculation_method = Some("skipped")
    THEN [run EXCEPT !.skipped_elements = Append(run.skipped_elements, r.metadata),
                     !.idx = run.idx + 1]
    ELSE [run EXCEPT !.detailed_results = Append(run.detailed_results, r.metadata),
                     !.total_co2 = run.total_co2 + Val(r.co2_kg),
                     !.total_mass = run.total_mass + Val(r.metadata.mass_kg),
                     !.calculated_count = run.calculated_count + 1,
                     !.idx = run.idx + 1]

\* generate_report after the loop, on the locals of one invocation.
run_report(run, db, now) ==
    LET sorted == sort_results(run.detailed_results)
        pct == with_percentages(aggregate_by_category(sorted))
    IN
    IF pct.raised # ""
    THEN [run EXCEPT !.detailed_results = sorted, !.pc = "raised",
                     !.exception = pct.raised]
    ELSE [run EXCEPT
            !.detailed_results = sorted,
            !.pc = "done",
            !.report = Some(
                [summary |-> summary_of(db, run.elements, run.calculated_count,
                                        Len(run.skipped_elements), run.total_co2,
                                        run.total_mass, now),
                 by_category |-> sort_categories(pct.by_category),
                 detailed_results |-> sorted,
                 skipped_elements |-> run.skipped_elements])]

\* generate_report run from its first line to its return or exception, with
\* nothing else running.
RECURSIVE run_to_end(_, _, _)
run_to_end(run, db, now) ==
    IF run.pc # "loop" THEN run
    ELSE IF run.idx <= Len(run.elements)
    THEN run_to_end(run_element(run, db), db, now)
    ELSE run_report(run, db, now)

generate_report(elems, db, now) == run_to_end(new_run(elems), db, now)

\* invoke_element with total_co2 a module-level accumulator: the pass of one
\* invocation adds to the total the other invocation has reached.
invoke_element_shared_total(rs, i, db) ==
    [rs EXCEPT ![i] =
        run_element([rs[i] EXCEPT
                        !.total_co2 = rs[i].total_co2 + rs[3 - i].total_co2], db)]

\* One pass of the loop of invocation i: it reads and writes its own locals
\* and reads the database.
invoke_element(rs, i, db) == [rs EXCEPT ![i] = run_element(rs[i], db)]

InitTwo ==
    /\ database = DatabaseFull
    /\ runs \in [Invocations ->
                    {new_run(l) : l \in ElementListsOf(ElementShapesTwo, MaxBatch)}]
    /\ classified_data = <<>>
    /\ elements = <<>>
    /\ output_file = None
    /\ tool = None
    /\ gen = None
    /\ calc = None
    /\ session = None
    /\ batch = None
    /\ pc = "idle"
    /\ idx = 1
    /\ detailed_results = <<>>
    /\ skipped_elements = <<>>
    /\ total_co2 = 0
    /\ total_mass = 0
    /\ calculated_count = 0
    /\ report = None
    /\ exception = ""

\* What the invocations leave alone.
two_frame ==
    <<database, elements, pc, idx, detailed_results, skipped_elements, total_co2,
      total_mass, calculated_count, report, exception, classified_data,
      output_file, tool, gen,
      calc, session, batch>>

TwoElement(i) ==
    /\ runs[i].pc = "loop"
    /\ runs[i].idx <= Len(runs[i].elements)
    /\ runs' = invoke_element(runs, i, database)
    /\ UNCHANGED two_frame

TwoReport(i) ==
    /\ runs[i].pc = "loop"
    /\ runs[i].idx > Len(runs[i].elements)
    /\ \E now \in Clock :
          runs' = [runs EXCEPT ![i] = run_report(runs[i], database, now)]
    /\ UNCHANGED two_frame

NextTwo == \E i \in Invocations : TwoElement(i) \/ TwoReport(i)

SpecTwo == InitTwo /\ [][NextTwo]_vars

\* A report without its summary.timestamp.
NoTimestamp(rep) ==
    IF rep = None THEN None
    ELSE Some([summary |-> [f \in DOMAIN Val(rep).summary \ {"timestamp"} |->
                              Val(rep).summary[f]],
               by_category |-> Val(rep).by_category,
               detailed_results |-> Val(rep).detailed_results,
               skipped_elements |-> Val(rep).skipped_elements])

\* What an invocation hands back: its report without timestamp, or its
\* exception.
Outcome(run) ==
    [pc |-> run.pc, exception |-> run.exception, report |-> NoTimestamp(run.report)]

\* The result invocation run holds for its element j, already processed.
RunResult(run, j) ==
    CHOOSE r \in Range(run.detailed_results) \cup Range(run.skipped_elements) :
        r.global_id = GetOpt(run.elements[j], "global_id")

\* Two elements that differ at most in global_id and name.
SameInput(e1, e2) ==
    /\ GetOpt(e1, "element_type") = GetOpt(e2, "element_type")
    /\ GetOpt(e1, "volume_m3") = GetOpt(e2, "volume_m3")
    /\ GetOpt(e1, "material_primary") = GetOpt(e2, "material_primary")

Anonymous(r) == [r EXCEPT !.global_id = None, !.element_name = None]

C16_Isolated ==
    \A i \in Invocations :
        runs[i].pc \in {"done", "raised"} =>
            Outcome(runs[i]) = Outcome(generate_report(runs[i].elements, database, "t1"))

\* Invocation 2 has run from start to report on its batch while invocation
\* 1, on a different batch, stood between its first and its second element.
C16_Witness ==
    /\ runs[1].pc = "loop"
    /\ runs[1].idx = 2
    /\ Len(runs[1].elements) = 2
    /\ Len(runs[1].detailed_results) = 1
    /\ runs[2].pc = "done"
    /\ runs[2].elements # runs[1].elements
    /\ Val(runs[2].report).summary.calculated = 2

\* C15: no step of main and generate_report changes an input element or the
\* database, and a result record, once appended to detailed_results or
\* skipped_elements, stays in its list as it is (sorting moves it only).
C15_Frame ==
    [][/\ elements' = elements
       /\ classified_data' = classified_data
       /\ database' = database
       /\ Range(detailed_results) \subseteq Range(detailed_results')
       /\ Len(detailed_results') >= Len(detailed_results)
       /\ Range(skipped_elements) \subseteq Range(skipped_elements')
       /\ Len(skipped_elements') >= Len(skipped_elements)]_vars

\* A report is returned whose detailed_results were reordered by the sort,
\* moving a record that carries warnings, and that has a skipped element.
C15_Witness ==
    /\ pc = "done"
    /\ Len(report.detailed_results) >= 2
    /\ report.detailed_results[1].global_id # Some("e1")
    /\ report.detailed_results[1].warnings # <<>>
    /\ \E i \in 1..Len(elements) :
          report.detailed_results[1].global_id = GetOpt(elements[i], "global_id")
    /\ report.skipped_elements # <<>>

\* ---------------------------------------------------------------- sdk_tools.calculate_co2
\* density_kg_m3 the tool assumes for an entry without one, in 0.01 kg/m3
default_density == 240000

\* {**d, k: v}: the value of k replaced in place, or appended.
DictSet(d, k, v) ==
    IF HasKey(d, k)
    THEN [i \in 1..Len(d) |-> IF d[i][1] = k THEN <<k, v>> ELSE d[i]]
    ELSE Append(d, <<k, v>>)

\* One pass of the tool's loop on its locals t.  volume_m3 is a JSON number
\* or null; material_primary is a dict or absent.  co2_factor is in 0.001
\* kg/m3, element_co2 and the co2_kg sums in 1e-4 kg, volumes in 0.1 m3.
tool_element(t, element, materials_db) ==
    LET material_primary == GetOr(element, "material_primary", <<>>)
        category == GetOr(material_primary, "category", "unknown")
        subcategory == GetOr(material_primary, "subcategory", "generic")
        has_volume == HasKey(element, "volume_m3")
        volume == IF has_volume THEN Get(element, "volume_m3") ELSE 0
        material_info == GetOr(materials_db, category, <<>>)
        sub_info == GetOr(material_info, subcategory,
                          GetOr(material_info, category \o "_generic", <<>>))
        embodied_co2 == GetOr(sub_info, "embodied_co2_per_kg", 0)
        density == GetOr(sub_info, "density_kg_m3", default_density)
        co2_factor == embodied_co2 * density
        element_co2 == volume * co2_factor
        started == IF HasKey(t.by_category, category) THEN t.by_category
                   ELSE Append(t.by_category,
                               <<category, [count |-> 0, co2_kg |-> 0,
                                            volume_m3 |-> 0]>>)
    IN
    [t EXCEPT
        !.elements_with_volume = IF has_volume THEN @ + 1 ELSE @,
        !.elements_without_volume = IF has_volume THEN @ ELSE @ + 1,
        !.by_category =
            [i \in 1..Len(started) |->
                IF started[i][1] = category
                THEN <<category,
                       [count |-> started[i][2].count + 1,
                        co2_kg |-> started[i][2].co2_kg + element_co2,
                        volume_m3 |-> started[i][2].volume_m3 + volume]>>
                ELSE started[i]],
        !.results =
            Append(@, DictSet(DictSet(element, "co2_kg",
                                      RoundHalfEven(element_co2, 100)),
                              "co2_factor_per_m3", RoundHalfEven(co2_factor, 10))),
        !.total_co2 = @ + element_co2]

\* The percentage pass: a category's share in 0.1 %, 0 unless total_co2 > 0.
tool_percentages(by_category, total) ==
    [i \in 1..Len(by_category) |->
        <<by_category[i][1],
          [count |-> by_category[i][2].count,
           co2_kg |-> by_category[i][2].co2_kg,
           volume_m3 |-> by_category[i][2].volume_m3,
           percentage |-> IF total > 0
                          THEN RoundQuot(by_category[i][2].co2_kg * 1000, total)
                          ELSE 0]>>]

\* The report the tool writes.
tool_report(t) ==
    [summary |->
        [total_co2_kg |-> RoundHalfEven(t.total_co2, 100),
         element_count |-> Len(t.results),
         elements_with_volume |-> t.elements_with_volume,
         elements_without_volume |-> t.elements_without_volume,
         completeness_pct |->
            IF Len(t.results) > 0
            THEN RoundHalfEven(t.elements_with_volume * 1000, Len(t.results))
            ELSE 0],
     by_category |-> tool_percentages(t.by_category, t.total_co2),
     elements |-> t.results]

\* The answer of a failed call.
tool_error(text) == [success |-> FALSE, is_error |-> TRUE, error |-> text]

\* <<element_type, volume_m3, material_primary>> of the elements the tool is
\* run on.
ElementShapesTool ==
    { <<Some("wall"), None, Some(MaterialPrimary("concrete", "C30"))>>,
      <<Some("column"), Some(5), Some(MaterialPrimary("concrete", "C30"))>>,
      <<Some("slab"), Some(3), Some(MaterialPrimary("concrete", "C99"))>>,
      <<Some("wall"), Some(3), Some(MaterialPrimary("brick", "clay"))>>,
      <<Some("wall"), Some(3), None>>,
      <<Some("window"), Some(5), Some(MaterialPrimary("glass", "glass_x"))>> }

\* The call is made; a file that does not exist is None.  writable tells
\* whether the output file can be created.
InitTool ==
    /\ database \in Databases \cup {None}
    /\ classified_data \in
          ClassifiedFiles(ElementListsOf(ElementShapesTool, MaxElems)) \cup {None}
    /\ tool \in {[results |-> <<>>, total_co2 |-> 0, elements_with_volume |-> 0,
                  elements_without_volume |-> 0, by_category |-> <<>>,
                  response |-> None, writable |-> w] : w \in BOOLEAN}
    /\ elements = <<>>
    /\ output_file = None
    /\ gen = None
    /\ runs = None
    /\ calc = None
    /\ session = None
    /\ batch = None
    /\ pc = "start"
    /\ idx = 1
    /\ detailed_results = <<>>
    /\ skipped_elements = <<>>
    /\ total_co2 = 0
    /\ total_mass = 0
    /\ calculated_count = 0
    /\ report = None
    /\ exception = ""

\* What the tool leaves alone.
tool_frame ==
    <<database, classified_data, detailed_results, skipped_elements, total_co2,
      total_mass, calculated_count, report, gen, runs,
      calc, session, batch>>

\* The input checks: a missing file ends the call with an error answer.
ToolMissingFile ==
    /\ pc = "start"
    /\ classified_data = None \/ database = None
    /\ tool' = [tool EXCEPT !.response =
                  Some(tool_error(IF classified_data = None
                                  THEN "Classified elements file not found"
                                  ELSE "Durability database not found"))]
    /\ pc' = "returned"
    /\ UNCHANGED <<elements, idx, exception, output_file, tool_frame>>

\* Both files are loaded; the loop runs over classified_data.get("elements", []).
ToolLoad ==
    /\ pc = "start"
    /\ classified_data # None
    /\ database # None
    /\ elements' = GetOr(classified_data, "elements", <<>>)
    /\ pc' = "loop"
    /\ UNCHANGED <<idx, tool, exception, output_file, tool_frame>>

ToolElement ==
    /\ pc = "loop"
    /\ idx <= Len(elements)
    /\ tool' = tool_element(tool, elements[idx], GetOr(database, "materials", database))
    /\ idx' = idx + 1
    /\ UNCHANGED <<elements, pc, exception, output_file, tool_frame>>

\* After the loop: percentages, the report written, the success answer.
ToolReport ==
    /\ pc = "loop"
    /\ idx > Len(elements)
    /\ tool.writable
    /\ LET rep == tool_report(tool)
       IN /\ output_file' = Some(rep)
          /\ tool' = [tool EXCEPT
                        !.by_category = rep.by_category,
                        !.response =
                          Some([success |-> TRUE, is_error |-> FALSE,
                                total_co2_kg |-> rep.summary.total_co2_kg,
                                element_count |-> rep.summary.element_count,
                                elements_with_volume |-> rep.summary.elements_with_volume,
                                elements_without_volume |->
                                    rep.summary.elements_without_volume,
                                completeness_pct |-> rep.summary.completeness_pct])]
    /\ pc' = "returned"
    /\ UNCHANGED <<elements, idx, exception, tool_frame>>

\* After the loop, creating the output file raises: the except clause
\* answers with the error.
ToolWriteFails ==
    /\ pc = "loop"
    /\ idx > Len(elements)
    /\ ~tool.writable
    /\ exception' = "OSError"
    /\ tool' = [tool EXCEPT
                  !.by_category = tool_percentages(tool.by_category, tool.total_co2),
                  !.response = Some(tool_error("OSError"))]
    /\ pc' = "returned"
    /\ UNCHANGED <<elements, idx, output_file, tool_frame>>

NextTool ==
    \/ ToolMissingFile
    \/ ToolLoad
    \/ ToolElement
    \/ ToolReport
    \/ ToolWriteFails

SpecTool == InitTool /\ [][NextTool]_vars

\* The elements of category, as the tool reads it, that have a volume.
WithVolume(elems, category) ==
    {i \in 1..Len(elems) :
        /\ HasKey(elems[i], "volume_m3")
        /\ GetOr(GetOr(elems[i], "material_primary", <<>>), "category", "unknown")
              = category}

\* C17: in the report the tool writes, no element with a null volume_m3 is
\* among the calculated elements, and a category's count counts only the
\* elements that have a volume.
C17_NullVolumeSkipped ==
    output_file # None =>
        /\ \A i \in 1..Len(Val(output_file).elements) :
              HasKey(Val(output_file).elements[i], "volume_m3")
        /\ \A i \in 1..Len(Val(output_file).by_category) :
              Val(output_file).by_category[i][2].count
                = Cardinality(WithVolume(elements, Val(output_file).by_category[i][1]))

\* C18: for every element resolved in the run, find_co2_factor returns no
\* warning when the subcategory key is in the category, and exactly one
\* warning, naming the generic key and the subcategory, when it is not and
\* the key '<category>_generic' is.
C18_GenericWarning ==
    \A i \in 1..(idx - 1) :
        LET category == CategoryOf(elements[i])
            subcategory == SubcategoryOf(elements[i])
            materials == GetOr(database, "materials", <<>>)
        IN  (/\ VolumeOf(elements[i]) \notin {None, Some(0)}
             /\ category \notin {None, Some("")}
             /\ HasKey(materials, Val(category)))
            =>
            LET category_data == Get(materials, Val(category))
                generic_key == Val(category) \o "_generic"
                found == find_co2_factor(database, Val(category), subcategory)
            IN  /\ InDict(category_data, subcategory) => found.warnings = <<>>
                /\ (~InDict(category_data, subcategory)
                      /\ HasKey(category_data, generic_key)) =>
                        /\ found.raised = ""
                        /\ found.co2_factor
                             = GetOpt(Get(category_data, generic_key),
                                      "embodied_co2_per_kg")
                        /\ Len(found.warnings) = 1
                        /\ Contains(found.warnings[1], generic_key)
                        /\ subcategory # None =>
                              Contains(found.warnings[1], Val(subcategory))

\* A report holds an element resolved by exact match, without warnings, and
\* one resolved through grit_generic, with the warning naming it.
C18_Witness ==
    /\ pc = "done"
    /\ \E r \in Range(report.detailed_results) :
          r.warnings = <<"Used grit_generic as fallback for fine">>
    /\ \E i \in 1..Len(elements) :
          /\ CategoryOf(elements[i]) = Some("dust")
          /\ SubcategoryOf(elements[i]) = Some("dust_x")
          /\ \E r \in Range(report.detailed_results) :
                /\ r.global_id = GetOpt(elements[i], "global_id")
                /\ r.warnings = <<>>

\* The warnings of a result begin with the warnings ws.
BeginsWith(warnings, ws) ==
    Len(warnings) >= Len(ws) /\ SubSeq(warnings, 1, Len(ws)) = ws

\* C19: for every element resolved in the run whose category has entries
\* but neither the subcategory key nor the generic key, find_co2_factor
\* returns the first entry's factor and source and one warning naming the
\* first key; and every 'volume_based' result carries the warnings the
\* resolver returned for its element.
C19_FirstEntry ==
    \A i \in 1..(idx - 1) :
        LET category == CategoryOf(elements[i])
            subcategory == SubcategoryOf(elements[i])
            materials == GetOr(database, "materials", <<>>)
        IN  (/\ VolumeOf(elements[i]) \notin {None, Some(0)}
             /\ category \notin {None, Some("")}
             /\ HasKey(materials, Val(category)))
            =>
            LET category_data == Get(materials, Val(category))
                found == find_co2_factor(database, Val(category), subcategory)
            IN  /\ (/\ Len(category_data) > 0
                    /\ ~InDict(category_data, subcategory)
                    /\ ~HasKey(category_data, Val(category) \o "_generic")) =>
                        /\ found.raised = ""
                        /\ found.co2_factor
                             = GetOpt(category_data[1][2], "embodied_co2_per_kg")
                        /\ found.source = GetOr(category_data[1][2], "source", "unknown")
                        /\ Len(found.warnings) = 1
                        /\ Contains(found.warnings[1], category_data[1][1])
                /\ \A r \in Range(detailed_results) :
                        r.global_id = GetOpt(elements[i], "global_id") =>
                            /\ r.calculation_method = Some("volume_based")
                            /\ BeginsWith(r.warnings, found.warnings)

\* C20: for every element the run has reached whose category is absent from
\* materials, or present with an empty mapping, find_co2_factor returns no
\* factor and one not-found warning (for an absent category "Material
\* category '<category>' not found in database"), and the element is in
\* skipped_elements, 'skipped', with that warning.
C20_NotFound ==
    \A i \in 1..Len(elements) :
        LET category == CategoryOf(elements[i])
            subcategory == SubcategoryOf(elements[i])
            materials == GetOr(database, "materials", <<>>)
        IN  (/\ i < idx \/ (i = idx /\ pc = "raised")
             /\ VolumeOf(elements[i]) \notin {None, Some(0)}
             /\ category \notin {None, Some("")}
             /\ \/ ~HasKey(materials, Val(category))
                \/ Len(Get(materials, Val(category))) = 0)
            =>
            LET found == find_co2_factor(database, Val(category), subcategory)
            IN  /\ found.raised = ""
                /\ found.co2_factor = None
                /\ Len(found.warnings) = 1
                /\ ~HasKey(materials, Val(category)) =>
                      found.warnings = <<"Material category '" \o Val(category)
                                          \o "' not found in database">>
                /\ Contains(found.warnings[1], "not found")
                /\ \E r \in Range(skipped_elements) :
                      /\ r.global_id = GetOpt(elements[i], "global_id")
                      /\ r.calculation_method = Some("skipped")
                      /\ r.warnings = found.warnings

\* ---------------------------------------------------------------- single calls
\* calculate_element_co2 and get_reinforcement_ratio called on one element
\* and one database.

\* A database with a steel category, a concrete category without a generic
\* entry, and reinforcement ratios under other keys than DatabaseFull's.
DatabaseSteel ==
    <<<<"version", "3.0">>,
      <<"materials",
        <<<<"concrete", <<<<"C30", MaterialEntry(246, 3, "EPD")>>,
                          <<"C40", MaterialEntry(250, 4, "EPD")>>>>>>,
          <<"steel",
            <<<<"steel_reinforcement", MaterialEntry(784, 20, "ICE")>>>>>>>>>>,
      <<"reinforcement_ratios",
        <<<<"slab", 19>>, <<"footing", 16>>, <<"load_bearing_wall", 24>>,
          <<"foundation_wall", 17>>>>>>>>

\* A database without version and reinforcement_ratios, the generic entry
\* first and without a source.
DatabaseBare ==
    <<<<"materials",
        <<<<"concrete",
            <<<<"concrete_generic",
                <<<<"density_kg_m3", 210>>, <<"embodied_co2_per_kg", 2>>>>>>,
              <<"C30", MaterialEntry(230, 4, "EPD")>>>>>>,
          <<"brick",
            <<<<"brick_b", MaterialEntry(180, 2, "ICE")>>,
              <<"brick_standard", MaterialEntry(246, 3, "ICE")>>>>>>,
          <<"glass", <<<<"glass_x", MaterialEntry(250, 8, "ICE")>>>>>>>>>>>>

DatabasesElement == {DatabaseFull, DatabaseBare, DatabaseSteel}

ElementTypesElement ==
    {None, Some("column"), Some("beam"), Some("slab"), Some("Slab"),
     Some("wall"), Some("structural_wall"), Some("Structural_Column"),
     Some("footing"), Some("foundation_wall"), Some("foundation_slab"),
     Some("load_bearing_wall"), Some("slab_structural"), Some("window")}

MaterialsElement ==
    {None,
     Some(MaterialPrimary("", "C30")),
     Some(MaterialPrimary("concrete", "C30")),
     Some(MaterialPrimary("concrete", "C99")),
     Some(MaterialPrimary("brick", "clay")),
     Some(MaterialPrimary("timber", "oak")),
     Some(MaterialPrimary("glass", "glass_x")),
     Some(MaterialPrimary("foam", "foam_x")),
     Some(MaterialPrimary("steel", "steel_reinforcement")),
     Some(<<<<"category", "misc">>>>)}

VolumesElement == {None, Some(0), Some(3), Some(5)}

ElementsElement ==
    { Element("e1", t, v, m) :
        t \in ElementTypesElement, v \in VolumesElement, m \in MaterialsElement }

\* One element and one database; nothing has been called yet.
InitElement ==
    /\ database \in DatabasesElement
    /\ elements \in {<<e>> : e \in ElementsElement}
    /\ pc = "call"
    /\ idx = 1
    /\ detailed_results = <<>>
    /\ skipped_elements = <<>>
    /\ total_co2 = 0
    /\ total_mass = 0
    /\ calculated_count = 0
    /\ report = None
    /\ exception = None
    /\ classified_data = None
    /\ output_file = None
    /\ tool = None
    /\ gen = None
    /\ runs = None
    /\ calc = [element |-> None, ratio |-> None, final |-> None,
               final_ratio |-> None]
    /\ session = None
    /\ batch = None

\* What a single call leaves alone.
element_frame ==
    <<database, elements, pc, idx, detailed_results, skipped_elements,
      total_co2, total_mass, calculated_count, report, exception,
      classified_data, output_file, tool, gen, runs, session, batch>>

\* calculate_element_co2(element, database) of calculate_co2_report.py
CallElement ==
    /\ pc = "call"
    /\ calc.element = None
    /\ calc' = [calc EXCEPT !.element =
                  Some(calculate_element_co2(elements[1], database))]
    /\ UNCHANGED element_frame

\* get_reinforcement_ratio(database, element_type) of calculate_co2_report.py
CallRatio ==
    /\ pc = "call"
    /\ calc.ratio = None
    /\ HasKey(elements[1], "element_type")
    /\ calc' = [calc EXCEPT !.ratio =
                  Some(get_reinforcement_ratio(database,
                                               Get(elements[1], "element_type")))]
    /\ UNCHANGED element_frame

\* ---- the copy of the engine in workspace/final_co2_calculation.py

\* find_co2_factor of final_co2_calculation.py: (co2_factor, source, warnings)
final_find_co2_factor(db, material_category, material_subcategory) ==
    LET materials == GetOr(db, "materials", <<>>)
    IN
    IF ~HasKey(materials, material_category)
    THEN [co2_factor |-> None, source |-> "not_found",
          warnings |-> <<"Material category '" \o material_category
                          \o "' not found in database">>]
    ELSE
    LET category_data == Get(materials, material_category)
        generic_key == material_category \o "_generic"
        entry_of(key, warnings) ==
            [co2_factor |-> GetOpt(Get(category_data, key), "embodied_co2_per_kg"),
             source |-> GetOr(Get(category_data, key), "source", "unknown"),
             warnings |-> warnings]
    IN
    IF InDict(category_data, material_subcategory)
    THEN entry_of(Val(material_subcategory), <<>>)
    ELSE IF HasKey(category_data, generic_key)
    THEN entry_of(generic_key,
                  <<"Used " \o generic_key \o " (0.115) for unspecified "
                    \o material_category \o " grade">>)
    ELSE IF Len(category_data) > 0 /\ category_data[1][1] # ""
    THEN entry_of(category_data[1][1],
                  <<fallback_warning(category_data[1][1], material_subcategory)>>)
    ELSE [co2_factor |-> None, source |-> "not_found",
          warnings |-> <<"Material '" \o Str(material_subcategory)
                          \o "' not found in database category '"
                          \o material_category \o "'">>]

\* get_material_density of final_co2_calculation.py
final_get_material_density(db, material_category, material_subcategory) ==
    LET materials == GetOr(db, "materials", <<>>)
    IN
    IF ~HasKey(materials, material_category) THEN None
    ELSE
    LET category_data == Get(materials, material_category)
        generic_key == material_category \o "_generic"
    IN
    IF InDict(category_data, material_subcategory)
    THEN GetOpt(Get(category_data, Val(material_subcategory)), "density_kg_m3")
    ELSE IF HasKey(category_data, generic_key)
    THEN GetOpt(Get(category_data, generic_key), "density_kg_m3")
    ELSE IF Len(category_data) > 0 /\ category_data[1][1] # ""
    THEN GetOpt(category_data[1][2], "density_kg_m3")
    ELSE None

\* get_reinforcement_ratio of final_co2_calculation.py, in 0.001
final_get_reinforcement_ratio(db, element_type) ==
    LET ratios == GetOr(db, "reinforcement_ratios", <<>>)
        lower == Lower(element_type)
    IN
    IF HasKey(ratios, element_type) THEN Get(ratios, element_type)
    ELSE IF Contains(lower, "column") THEN GetOr(ratios, "column", 25)
    ELSE IF Contains(lower, "beam") THEN GetOr(ratios, "beam", 28)
    ELSE IF Contains(lower, "slab") \/ Contains(lower, "structural")
    THEN GetOr(ratios, "structural_slab", 20)
    ELSE IF Contains(lower, "footing") THEN GetOr(ratios, "footing", 15)
    ELSE IF Contains(lower, "wall")
    THEN IF Contains(lower, "foundation")
         THEN GetOr(ratios, "foundation_wall", 18)
         ELSE GetOr(ratios, "structural_wall", 22)
    ELSE 0

\* any(rtype in element_type.lower() for rtype in reinforceable_types)
should_add_reinforcement(element_type) ==
    \E rtype \in ReinforcedTypes : Contains(Lower(element_type), rtype)

\* calculate_co2_for_element: (co2_kg, result), co2_kg before rounding in
\* 1e-8 kg.  element.get("element_type", "") is "" for an absent type.
calculate_co2_for_element(element, db) ==
    LET result ==
            [global_id |-> GetOpt(element, "global_id"),
             element_name |-> GetOpt(element, "name"),
             element_type |-> GetOpt(element, "element_type"),
             material_category |-> None,
             volume_m3 |-> GetOpt(element, "volume_m3"),
             mass_kg |-> None,
             co2_kg |-> None,
             co2_factor_used |-> None,
             data_source |-> None,
             calculation_method |-> None,
             confidence |-> GetOr(element, "confidence", 50),
             warnings |-> <<>>]
        volume == GetOpt(element, "volume_m3")
        skipped(res, warnings) ==
            [co2_kg |-> None,
             result |-> [res EXCEPT !.calculation_method = Some("skipped"),
                                    !.warnings = warnings]]
    IN
    IF no_volume(volume)
    THEN skipped(result, <<"No volume data - cannot calculate CO2">>)
    ELSE
    LET material_primary == GetOr(element, "material_primary", <<>>)
        material_category == GetOpt(material_primary, "category")
        material_subcategory == GetOpt(material_primary, "subcategory")
    IN
    IF no_category(material_category)
    THEN skipped(result, <<"No material category - cannot calculate CO2">>)
    ELSE
    LET found == final_find_co2_factor(db, Val(material_category),
                                       material_subcategory)
        res1 == [result EXCEPT !.material_category = material_category]
    IN
    IF found.co2_factor = None
    THEN skipped(res1, found.warnings)
    ELSE
    LET res2 == [res1 EXCEPT !.co2_factor_used = found.co2_factor,
                             !.data_source = Some(found.source)]
        density == final_get_material_density(db, Val(material_category),
                                              material_subcategory)
    IN
    IF density = None
    THEN skipped(res2, Append(found.warnings, "Cannot determine material density"))
    ELSE
    LET mass_kg == Val(volume) * Val(density)                    \* in 0.001
        base_co2 == mass_kg * Val(found.co2_factor) * 10000      \* in 1e-8
        element_type == GetOr(element, "element_type", "")
        eligible == /\ material_category = Some("concrete")
                    /\ should_add_reinforcement(element_type)
        rebar_ratio == IF eligible
                       THEN final_get_reinforcement_ratio(db, element_type)
                       ELSE 0
        rebar_mass_kg == mass_kg * rebar_ratio                   \* in 1e-6
        add == eligible /\ rebar_ratio > 0
        co2_kg == IF add THEN base_co2 + rebar_mass_kg * steel_co2_factor
                  ELSE base_co2
    IN
    [co2_kg |-> Some(co2_kg),
     result |-> [res2 EXCEPT
         !.mass_kg = Some(RoundHalfEven(mass_kg, 10)),
         !.warnings = IF add
                      THEN Append(found.warnings,
                                  reinforcement_warning(rebar_ratio, rebar_mass_kg))
                      ELSE found.warnings,
         !.co2_kg = Some(RoundHalfEven(co2_kg, 1000000)),
         !.calculation_method = Some("volume_based")]]

\* calculate_co2_for_element(element, database) of final_co2_calculation.py
CallFinal ==
    /\ pc = "call"
    /\ calc.final = None
    /\ calc' = [calc EXCEPT !.final =
                  Some(calculate_co2_for_element(elements[1], database))]
    /\ UNCHANGED element_frame

\* get_reinforcement_ratio(database, element_type) of final_co2_calculation.py
CallFinalRatio ==
    /\ pc = "call"
    /\ calc.final_ratio = None
    /\ HasKey(elements[1], "element_type")
    /\ calc' = [calc EXCEPT !.final_ratio =
                  Some(final_get_reinforcement_ratio(database,
                           Get(elements[1], "element_type")))]
    /\ UNCHANGED element_frame

NextElement == CallElement \/ CallRatio \/ CallFinal \/ CallFinalRatio

SpecElement == InitElement /\ [][NextElement]_vars

\* The category data the element's material category names, empty when the
\* database has no such category.
CategoryData(element, db) ==
    LET materials == GetOr(db, "materials", <<>>)
        category == CategoryOf(element)
    IN  IF category # None /\ HasKey(materials, Val(category))
        THEN Get(materials, Val(category))
        ELSE <<>>

\* C21: for an element that calculate_element_co2 calculated, the factor
\* used, its source and the density behind mass_kg are those of one entry of
\* the element's category; and for the element's (category, subcategory)
\* find_co2_factor and get_material_density either both raise, or both
\* select nothing, or return the factor, source and density of one entry.
C21_SameEntry ==
    (calc # None /\ calc.element # None) =>
        LET element == elements[1]
            r == Val(calc.element)
            category == CategoryOf(element)
            subcategory == SubcategoryOf(element)
            category_data == CategoryData(element, database)
        IN  /\ (r.raised = "" /\ r.co2_kg # None) =>
                \E i \in 1..Len(category_data) :
                    LET entry == category_data[i][2]
                    IN  /\ r.metadata.co2_factor_used
                              = GetOpt(entry, "embodied_co2_per_kg")
                        /\ r.metadata.data_source
                              = Some(GetOr(entry, "source", "unknown"))
                        /\ HasKey(entry, "density_kg_m3")
                        /\ r.metadata.mass_kg
                              = Some(RoundHalfEven(Val(VolumeOf(element))
                                        * Get(entry, "density_kg_m3"), 10))
            /\ category \notin {None, Some("")} =>
                LET found == find_co2_factor(database, Val(category), subcategory)
                    dens == get_material_density(database, Val(category), subcategory)
                IN  /\ found.raised = dens.raised
                    /\ found.raised = "" =>
                        \/ found.source = "not_found" /\ dens.density = None
                        \/ \E i \in 1..Len(category_data) :
                              LET entry == category_data[i][2]
                              IN  /\ found.co2_factor
                                        = GetOpt(entry, "embodied_co2_per_kg")
                                  /\ found.source = GetOr(entry, "source", "unknown")
                                  /\ dens.density = GetOpt(entry, "density_kg_m3")

\* An element was calculated from the generic entry of its category, which
\* is not the category's first entry.
C21_Witness ==
    /\ calc # None /\ calc.element # None
    /\ database = DatabaseFull
    /\ CategoryOf(elements[1]) = Some("concrete")
    /\ SubcategoryOf(elements[1]) = Some("C99")
    /\ Val(calc.element).co2_kg # None
    /\ Val(calc.element).metadata.co2_factor_used = Some(5)
    /\ Val(calc.element).metadata.mass_kg = Some(66)

\* The type name, lower-cased, holds one of the structural keywords.
HasStructuralKeyword(element) ==
    /\ HasKey(element, "element_type")
    /\ \E kw \in {"column", "beam", "slab", "structural", "footing", "wall"} :
          Contains(Lower(Get(element, "element_type")), kw)

\* C22: a calculated element gets the reinforcement step (rebar CO2 is added
\* when its ratio is positive) exactly when its category is "concrete" and
\* its element_type, lower-cased, holds one of the keywords column, beam,
\* slab, structural, footing, wall; no element of another category has
\* reinforcement added.
C22_Eligibility ==
    (calc # None /\ calc.element # None /\ calc.ratio # None) =>
        LET element == elements[1]
            r == Val(calc.element)
        IN  (r.raised = "" /\ r.co2_kg # None) =>
                r.metadata.reinforcement_added
                    = (/\ CategoryOf(element) = Some("concrete")
                       /\ HasStructuralKeyword(element)
                       /\ Val(calc.ratio) > 0)

\* The ratio (in 0.001) of the first keyword bucket the lower-cased type
\* name falls in, in the order column, beam, slab or structural, footing,
\* wall with foundation, wall; 0 when it falls in none.
BucketRatio(ratios, element_type) ==
    LET lower == Lower(element_type)
    IN  IF Contains(lower, "column") THEN GetOr(ratios, "column", 25)
        ELSE IF Contains(lower, "beam") THEN GetOr(ratios, "beam", 28)
        ELSE IF Contains(lower, "slab") \/ Contains(lower, "structural")
        THEN GetOr(ratios, "structural_slab", 20)
        ELSE IF Contains(lower, "footing") THEN GetOr(ratios, "footing", 15)
        ELSE IF Contains(lower, "wall") /\ Contains(lower, "foundation")
        THEN GetOr(ratios, "foundation_wall", 18)
        ELSE IF Contains(lower, "wall") THEN GetOr(ratios, "structural_wall", 22)
        ELSE 0

\* C23: get_reinforcement_ratio returns reinforcement_ratios[element_type] / 100
\* for an exact key, and otherwise the ratio of the first keyword bucket
\* that matches the lower-cased type name, 0 when none does.
C23_RatioBuckets ==
    (calc # None /\ calc.ratio # None) =>
        LET ratios == GetOr(database, "reinforcement_ratios", <<>>)
            element_type == Get(elements[1], "element_type")
        IN  Val(calc.ratio) = IF HasKey(ratios, element_type)
                              THEN Get(ratios, element_type)
                              ELSE BucketRatio(ratios, element_type)

\* x is the multiple of d nearest to n, the even one of two equally near.
IsRounded(x, n, d) ==
    /\ 2 * Abs(n - x * d) <= d
    /\ 2 * Abs(n - x * d) = d => x % 2 = 0

DatabaseSteelFactor(db) ==
    LET steel == GetOr(GetOr(db, "materials", <<>>), "steel", <<>>)
    IN  IF HasKey(steel, "steel_reinforcement")
           /\ HasKey(Get(steel, "steel_reinforcement"), "embodied_co2_per_kg")
        THEN Get(Get(steel, "steel_reinforcement"), "embodied_co2_per_kg") * 10
        ELSE 165

\* C25: the rebar CO2 added to an element is its rebar mass times the
\* embodied_co2_per_kg of the database's steel.steel_reinforcement entry
\* when the database has that entry, and times 1.65 only when it has not.
C25_SteelFactor ==
    (calc # None /\ calc.element # None /\ calc.ratio # None) =>
        LET element == elements[1]
            r == Val(calc.element)
        IN  (r.raised = "" /\ r.co2_kg # None /\ r.metadata.reinforcement_added) =>
            LET dens == get_material_density(database, Val(CategoryOf(element)),
                                             SubcategoryOf(element))
                mass == Val(VolumeOf(element)) * Val(dens.density)
                base == mass * Val(r.metadata.co2_factor_used) * 10000
            IN  Val(r.co2_kg) - base
                    = mass * Val(calc.ratio) * DatabaseSteelFactor(database)

\* The warnings of a result that speak of reinforcement.
ReinforcementWarnings(warnings) ==
    {j \in 1..Len(warnings) : Contains(warnings[j], "reinforcement")}

\* C26: a calculated element to which rebar CO2 was added carries the
\* warnings of the factor resolution followed by exactly one warning that
\* gives the reinforcement percentage (1 decimal) and the steel mass
\* (2 decimals); a calculated element without rebar CO2 carries the
\* warnings of the factor resolution and none about reinforcement.
C26_ReinforcementWarning ==
    (calc # None /\ calc.element # None /\ calc.ratio # None) =>
        LET element == elements[1]
            r == Val(calc.element)
        IN  (r.raised = "" /\ r.co2_kg # None) =>
            LET found == find_co2_factor(database, Val(CategoryOf(element)),
                                         SubcategoryOf(element))
                dens == get_material_density(database, Val(CategoryOf(element)),
                                             SubcategoryOf(element))
                mass == Val(VolumeOf(element)) * Val(dens.density)
                base == mass * Val(r.metadata.co2_factor_used) * 10000
                steel == mass * Val(calc.ratio)                     \* in 1e-6 kg
                cents == CHOOSE c \in 0..(steel \div 10000 + 1) :
                             IsRounded(c, steel, 10000)
                text == "Added " \o ToString(Val(calc.ratio) \div 10) \o "."
                        \o ToString(Val(calc.ratio) % 10) \o "% reinforcement ("
                        \o ToString(cents \div 100) \o "."
                        \o TwoDigits(cents % 100) \o " kg steel)"
                warnings == r.metadata.warnings
            IN  IF Val(r.co2_kg) # base
                THEN /\ warnings = Append(found.warnings, text)
                     /\ ReinforcementWarnings(warnings) = {Len(warnings)}
                     /\ r.metadata.reinforcement_added
                ELSE /\ warnings = found.warnings
                     /\ ReinforcementWarnings(warnings) = {}
                     /\ ~r.metadata.reinforcement_added

\* A slab resolved through the generic entry got rebar CO2: the fallback
\* warning comes first, the reinforcement warning second.
C26_Witness ==
    /\ calc # None /\ calc.element # None /\ calc.ratio # None
    /\ Val(calc.element).co2_kg # None
    /\ Val(calc.element).metadata.warnings
         = <<"Used concrete_generic as fallback for C99",
             "Added 2.1% reinforcement (0.01 kg steel)">>

\* ---------------------------------------------------------------- prepare_batches
\* The prepare_batches tool of sdk_tools.py: session holds the parsed-elements
\* file (json_path) and the batches file (output_path), batch the arguments
\* and locals of the call.

\* Longest parsed element list, largest batch_size argument.
MaxParsed == 4
MaxBatchSize == 3

\* args.get("batch_size", 100)
default_batch_size == 100

\* s[i:j + 1], one element too many.
slice_inclusive(s, i, j) ==
    SubSeq(s, i + 1, IF j + 1 < Len(s) THEN j + 1 ELSE Len(s))

\* s[i:j] for 0 <= i <= j
slice(s, i, j) == SubSeq(s, i + 1, IF j < Len(s) THEN j ELSE Len(s))

\* An entity as parse_ifc_file writes it.
ParsedEntity(global_id, ifc_type) ==
    <<<<"global_id", global_id>>, <<"ifc_type", ifc_type>>,
      <<"name", "n " \o global_id>>>>

ParsedEntities ==
    {ParsedEntity("g1", "IfcWall"), ParsedEntity("g2", "IfcSlab")}

RECURSIVE ParsedLists(_)
ParsedLists(n) ==
    IF n = 0 THEN {<<>>}
    ELSE LET shorter == ParsedLists(n - 1)
         IN  shorter \cup
             {Append(l, e) : l \in {x \in shorter : Len(x) = n - 1},
                             e \in ParsedEntities}

\* The file at json_path: missing, without an `elements` key, or with one.
ParsedFiles ==
    {None, Some(<<<<"source_file", "model.ifc">>>>)}
      \cup {Some(<<<<"elements", l>>, <<"total_count", Len(l)>>,
                   <<"source_file", "model.ifc">>>>) : l \in ParsedLists(MaxParsed)}

\* args: batch_size is optional.
PrepareArgs ==
    {<<<<"json_path", "parsed.json">>, <<"output_path", "batches.json">>>>}
      \cup {<<<<"json_path", "parsed.json">>, <<"batch_size", b>>,
              <<"output_path", "batches.json">>>> : b \in -1..MaxBatchSize}

InitBatches ==
    /\ session \in {[json_path |-> f, output_path |-> None, writable |-> w] :
                        f \in ParsedFiles, w \in BOOLEAN}
    /\ batch \in {[args |-> a, elements |-> <<>>, batch_size |-> 0, i |-> 0,
                   batches |-> <<>>, response |-> None] : a \in PrepareArgs}
    /\ pc = "start"
    /\ database = None
    /\ elements = <<>>
    /\ idx = 1
    /\ detailed_results = <<>>
    /\ skipped_elements = <<>>
    /\ total_co2 = 0
    /\ total_mass = 0
    /\ calculated_count = 0
    /\ report = None
    /\ exception = None
    /\ classified_data = None
    /\ output_file = None
    /\ tool = None
    /\ gen = None
    /\ runs = None
    /\ calc = None

\* What the batch tools leave alone.
batch_frame ==
    <<database, elements, idx, detailed_results, skipped_elements, total_co2,
      total_mass, calculated_count, report, exception, classified_data,
      output_file, tool, gen, runs, calc>>

\* The answer of the except branch: success False and the exception's name.
batch_error(error) == [success |-> FALSE, error |-> error, is_error |-> TRUE]

\* Lines 165-169: the file is loaded and the locals are set.  range() with
\* step 0 raises when the loop is entered.
PrepareLoad ==
    /\ pc = "start"
    /\ session.json_path # None
    /\ GetOr(batch.args, "batch_size", default_batch_size) # 0
    /\ batch' = [batch EXCEPT
                   !.elements = GetOr(Val(session.json_path), "elements", <<>>),
                   !.batch_size = GetOr(batch.args, "batch_size", default_batch_size)]
    /\ pc' = "loop"
    /\ UNCHANGED <<session, batch_frame>>

\* open() fails on a missing file, range() on a step of 0.
PrepareLoadFails ==
    /\ pc = "start"
    /\ \/ session.json_path = None
       \/ GetOr(batch.args, "batch_size", default_batch_size) = 0
    /\ batch' = [batch EXCEPT !.response =
                   Some(batch_error(IF session.json_path = None
                                    THEN "FileNotFoundError" ELSE "ValueError"))]
    /\ pc' = "returned"
    /\ UNCHANGED <<session, batch_frame>>

\* One pass of `for i in range(0, len(elements), batch_size)`.
PrepareBatch ==
    /\ pc = "loop"
    /\ batch.batch_size > 0
    /\ batch.i < Len(batch.elements)
    /\ LET part == slice(batch.elements, batch.i, batch.i + batch.batch_size)
       IN  batch' = [batch EXCEPT
                       !.batches = Append(@, [batch_id |-> Len(@) + 1,
                                              elements |-> part,
                                              element_count |-> Len(part)]),
                       !.i = @ + batch.batch_size]
    /\ UNCHANGED <<pc, session, batch_frame>>

\* The range is exhausted (at once for a negative step).
PrepareRangeDone ==
    \/ batch.batch_size < 0
    \/ batch.i >= Len(batch.elements)

\* Lines 182-203: the batches file is written and success is answered.
PrepareWrite ==
    /\ pc = "loop"
    /\ PrepareRangeDone
    /\ session.writable
    /\ session' = [session EXCEPT !.output_path =
                     Some([batches |-> batch.batches,
                           total_batches |-> Len(batch.batches),
                           total_elements |-> Len(batch.elements),
                           batch_size |-> batch.batch_size])]
    /\ batch' = [batch EXCEPT !.response =
                   Some([success |-> TRUE,
                         total_batches |-> Len(batch.batches),
                         total_elements |-> Len(batch.elements),
                         output_file |-> Get(batch.args, "output_path")])]
    /\ pc' = "returned"
    /\ UNCHANGED batch_frame

\* mkdir or open(output_path, 'w') fails.
PrepareWriteFails ==
    /\ pc = "loop"
    /\ PrepareRangeDone
    /\ ~session.writable
    /\ batch' = [batch EXCEPT !.response = Some(batch_error("OSError"))]
    /\ pc' = "returned"
    /\ UNCHANGED <<session, batch_frame>>

NextBatches ==
    \/ PrepareLoad
    \/ PrepareLoadFails
    \/ PrepareBatch
    \/ PrepareWrite
    \/ PrepareWriteFails

SpecBatches == InitBatches /\ [][NextBatches]_vars

\* The element lists of batches 1..n one after the other.
RECURSIVE ConcatElements(_, _)
ConcatElements(batches, n) ==
    IF n = 0 THEN <<>>
    ELSE ConcatElements(batches, n - 1) \o batches[n].elements

\* C27: for batch_size >= 1 the batches written by prepare_batches, joined
\* in batch_id order, are the input element list; batch_ids are
\* 1..total_batches, every batch holds 1..batch_size elements and counts
\* them in element_count, and total_elements is the sum of the counts.
C27_BatchesPartition ==
    (batch # None /\ pc = "returned" /\ Val(batch.response).success
        /\ batch.batch_size >= 1) =>
        LET written == Val(session.output_path)
            parsed_elements == GetOr(Val(session.json_path), "elements", <<>>)
            n == Len(written.batches)
        IN  /\ ConcatElements(written.batches, n) = parsed_elements
            /\ written.total_batches = n
            /\ Val(batch.response).total_batches = n
            /\ \A k \in 1..n :
                  /\ written.batches[k].batch_id = k
                  /\ Len(written.batches[k].elements) \in 1..batch.batch_size
                  /\ written.batches[k].element_count
                        = Len(written.batches[k].elements)
            /\ written.total_elements
                  = SumSeq([k \in 1..n |-> written.batches[k].element_count])
            /\ Val(batch.response).total_elements = written.total_elements

\* Three elements were written as a full batch of two and a last batch of one.
C27_Witness ==
    /\ batch # None /\ pc = "returned" /\ Val(batch.response).success
    /\ batch.batch_size = 2
    /\ Len(batch.elements) = 3
    /\ Len(Val(session.output_path).batches) = 2
    /\ Val(session.output_path).batches[2].element_count = 1

\* ---------------------------------------------------------------- aggregate_batch_results
\* The aggregate_batch_results tool of sdk_tools.py.  session holds the files
\* batch_<n>_elements.json of the session context directory and the
\* aggregated file; a batch file is missing, holds text that is no JSON,
\* holds a JSON object, or holds a JSON list of elements.

\* Most batch files in a session directory.
MaxBatchFiles == 2

ClassifiedEntity(id_key, global_id, fields) ==
    <<<<id_key, global_id>>>> \o fields

\* An element with both required fields, one that names its id `guid`, and
\* one without ifc_type.
EntityWall == ClassifiedEntity("global_id", "g1", <<<<"ifc_type", "IfcWall">>>>)
EntityGuid == ClassifiedEntity("guid", "g2", <<<<"ifc_type", "IfcSlab">>>>)
EntityBare == ClassifiedEntity("global_id", "g3", <<<<"name", "n g3">>>>)

\* str(e) of the JSONDecodeError json.load raises on an empty file.
EmptyFileError == "Expecting value: line 1 column 1 (char 0)"

BatchFileContents ==
    {[kind |-> "missing", data |-> <<>>],
     [kind |-> "invalid", data |-> <<>>],
     [kind |-> "object", data |-> <<>>],
     [kind |-> "list", data |-> <<>>],
     [kind |-> "list", data |-> <<EntityWall>>],
     [kind |-> "list", data |-> <<EntityGuid, EntityBare>>]}

InitAggregate ==
    /\ session \in {[batch_files |-> f, output_file |-> None, writable |-> w] :
                        f \in [1..MaxBatchFiles -> BatchFileContents],
                        w \in BOOLEAN}
    /\ batch \in {[args |-> <<<<"total_batches", n>>,
                              <<"output_file", "all_classified_elements.json">>>>,
                   batch_num |-> 1, all_elements |-> <<>>, batch_stats |-> <<>>,
                   missing_batches |-> <<>>, validation_errors |-> <<>>,
                   response |-> None] : n \in 0..MaxBatchFiles}
    /\ pc = "loop"
    /\ database = None
    /\ elements = <<>>
    /\ idx = 1
    /\ detailed_results = <<>>
    /\ skipped_elements = <<>>
    /\ total_co2 = 0
    /\ total_mass = 0
    /\ calculated_count = 0
    /\ report = None
    /\ exception = None
    /\ classified_data = None
    /\ output_file = None
    /\ tool = None
    /\ gen = None
    /\ runs = None
    /\ calc = None

\* d without its key k
RECURSIVE DictPop(_, _)
DictPop(d, k) ==
    IF Len(d) = 0 THEN <<>>
    ELSE IF d[1][1] = k THEN Tail(d)
    ELSE <<d[1]>> \o DictPop(Tail(d), k)

\* Lines 1358-1359: guid is renamed to global_id when global_id is absent.
normalize_elem(elem) ==
    IF HasKey(elem, "guid") /\ ~HasKey(elem, "global_id")
    THEN Append(DictPop(elem, "guid"), <<"global_id", Get(elem, "guid")>>)
    ELSE elem

\* Lines 1362-1365: one validation error per required field an element lacks.
RECURSIVE validate_batch(_, _)
validate_batch(batch_num, batch_data) ==
    IF Len(batch_data) = 0 THEN <<>>
    ELSE LET elem == normalize_elem(batch_data[1])
             missing(field) ==
                 IF HasKey(elem, field) THEN <<>>
                 ELSE <<"Batch " \o ToString(batch_num) \o ": missing " \o field>>
         IN  missing("global_id") \o missing("ifc_type")
             \o validate_batch(batch_num, Tail(batch_data))

normalize_batch(batch_data) ==
    [j \in 1..Len(batch_data) |-> normalize_elem(batch_data[j])]

\* Lines 1341-1374: one pass of the loop over batch 1..total_batches.
aggregate_batch(b, file) ==
    LET n == b.batch_num
        next == [b EXCEPT !.batch_num = n + 1]
    IN  IF file.kind = "missing"
        THEN [next EXCEPT !.missing_batches = Append(@, n)]
        ELSE IF file.kind = "invalid"
        THEN [next EXCEPT !.validation_errors =
                 Append(@, "Batch " \o ToString(n) \o ": invalid JSON - "
                           \o EmptyFileError)]
        ELSE IF file.kind # "list"
        THEN [next EXCEPT !.validation_errors =
                 Append(@, "Batch " \o ToString(n) \o ": not a list")]
        ELSE [next EXCEPT
                 !.validation_errors = @ \o validate_batch(n, file.data),
                 !.all_elements = @ \o normalize_batch(file.data),
                 !.batch_stats = Append(@, [batch |-> n,
                                            elements |-> Len(file.data)])]

AggregateBatch ==
    /\ pc = "loop"
    /\ batch.batch_num <= Get(batch.args, "total_batches")
    /\ batch' = aggregate_batch(batch, session.batch_files[batch.batch_num])
    /\ UNCHANGED <<pc, session, batch_frame>>

\* Lines 1376-1387: a missing batch ends the call with an error answer.
AggregateMissing ==
    /\ pc = "loop"
    /\ batch.batch_num > Get(batch.args, "total_batches")
    /\ batch.missing_batches # <<>>
    /\ batch' = [batch EXCEPT !.response =
                   Some([success |-> FALSE,
                         error |-> <<"Missing batches", batch.missing_batches>>,
                         found_batches |-> [j \in 1..Len(batch.batch_stats) |->
                                               batch.batch_stats[j].batch],
                         is_error |-> TRUE])]
    /\ pc' = "returned"
    /\ UNCHANGED <<session, batch_frame>>

\* Lines 1390-1415: the aggregated file is written and success is answered.
AggregateWrite ==
    /\ pc = "loop"
    /\ batch.batch_num > Get(batch.args, "total_batches")
    /\ batch.missing_batches = <<>>
    /\ session.writable
    /\ LET warnings == IF batch.validation_errors # <<>>
                       THEN Some(batch.validation_errors) ELSE None
       IN  /\ session' = [session EXCEPT !.output_file =
                            Some([elements |-> batch.all_elements,
                                  total_count |-> Len(batch.all_elements),
                                  batch_stats |-> batch.batch_stats,
                                  validation_warnings |-> warnings])]
           /\ batch' = [batch EXCEPT !.response =
                          Some([success |-> TRUE,
                                total_elements |-> Len(batch.all_elements),
                                batches_processed |-> Len(batch.batch_stats),
                                batch_stats |-> batch.batch_stats,
                                output_file |-> Get(batch.args, "output_file"),
                                validation_warnings |-> warnings])]
    /\ pc' = "returned"
    /\ UNCHANGED batch_frame

\* mkdir or open(output_path, 'w') fails.
AggregateWriteFails ==
    /\ pc = "loop"
    /\ batch.batch_num > Get(batch.args, "total_batches")
    /\ batch.missing_batches = <<>>
    /\ ~session.writable
    /\ batch' = [batch EXCEPT !.response = Some(batch_error("OSError"))]
    /\ pc' = "returned"
    /\ UNCHANGED <<session, batch_frame>>

NextAggregate ==
    \/ AggregateBatch
    \/ AggregateMissing
    \/ AggregateWrite
    \/ AggregateWriteFails

SpecAggregate == InitAggregate /\ [][NextAggregate]_vars

\* The elements of the batch files 1..n one after the other, with guid
\* renamed to global_id.
RECURSIVE ConcatFiles(_, _)
ConcatFiles(files, n) ==
    IF n = 0 THEN <<>>
    ELSE ConcatFiles(files, n - 1) \o normalize_batch(files[n].data)

\* C28: aggregate_batch_results answers success, and writes the aggregated
\* file, only when every batch 1..total_batches was combined: the file's
\* elements are then those of all the batches in ascending batch number and
\* total_count is the sum of their sizes; with a batch file missing it
\* answers an error and writes no file.
C28_AllOrNothing ==
    (batch # None /\ pc = "returned") =>
        LET total_batches == Get(batch.args, "total_batches")
            files == session.batch_files
            response == Val(batch.response)
        IN  /\ response.success =>
                /\ \A n \in 1..total_batches : files[n].kind = "list"
                /\ session.output_file # None
                /\ Val(session.output_file).elements
                      = ConcatFiles(files, total_batches)
                /\ Val(session.output_file).total_count
                      = SumSeq([n \in 1..total_batches |-> Len(files[n].data)])
            /\ session.output_file # None => response.success
            /\ (\E n \in 1..total_batches : files[n].kind = "missing") =>
                  ~response.success /\ session.output_file = None

\* ---------------------------------------------------------------- wait_for_batch_file
\* The wait_for_batch_file tool of sdk_tools.py and a writer of the batch
\* file that runs beside it.  session.file is the batch file as it is now;
\* besides the contents of BatchFileContents it may hold bytes that are no
\* text (a write cut inside a multi-byte character).

\* Largest timeout_seconds argument.
MaxTimeout == 11

\* args.get("timeout_seconds", 120) and poll_interval = 5
default_timeout == 120
poll_interval == 5

WaitFileContents ==
    BatchFileContents \cup {[kind |-> "undecodable", data |-> <<>>]}

WaitArgs ==
    {<<<<"batch_number", 1>>>>}
      \cup {<<<<"batch_number", 1>>, <<"timeout_seconds", t>>>> : t \in 0..MaxTimeout}

InitWait ==
    /\ session \in {[file |-> f] : f \in WaitFileContents}
    /\ batch \in {[args |-> a,
                   timeout |-> GetOr(a, "timeout_seconds", default_timeout),
                   elapsed |-> 0, polls |-> 0, data |-> None,
                   response |-> None] : a \in WaitArgs}
    /\ pc = "while"
    /\ database = None
    /\ elements = <<>>
    /\ idx = 1
    /\ detailed_results = <<>>
    /\ skipped_elements = <<>>
    /\ total_co2 = 0
    /\ total_mass = 0
    /\ calculated_count = 0
    /\ report = None
    /\ exception = None
    /\ classified_data = None
    /\ output_file = None
    /\ tool = None
    /\ gen = None
    /\ runs = None
    /\ calc = None

\* f"Timeout waiting for batch {args['batch_number']} after {timeout} seconds"
timeout_error(batch_number, timeout) ==
    "Timeout waiting for batch " \o ToString(batch_number) \o " after "
    \o ToString(timeout) \o " seconds"

\* `while elapsed < timeout` and `if batch_file.exists()`: a pass of the
\* loop begins; polls counts the passes.
WaitPoll ==
    /\ pc = "while"
    /\ batch.elapsed < batch.timeout
    /\ batch' = [batch EXCEPT !.polls = @ + 1]
    /\ pc' = IF session.file.kind # "missing" THEN "settle" ELSE "sleep"
    /\ UNCHANGED <<session, batch_frame>>

\* Lines 1286-1296: the loop is left and the timeout error is answered.
WaitTimeout ==
    /\ pc = "while"
    /\ batch.elapsed >= batch.timeout
    /\ batch' = [batch EXCEPT !.response =
                   Some([success |-> FALSE,
                         error |-> timeout_error(Get(batch.args, "batch_number"),
                                                 batch.timeout),
                         is_error |-> TRUE])]
    /\ pc' = "returned"
    /\ UNCHANGED <<session, batch_frame>>

\* Lines 1260-1281, after asyncio.sleep(2): the file is opened and parsed
\* as it is by then.  A non-empty list is answered with success; text that
\* is no JSON (json.JSONDecodeError) and any other JSON value go on to the
\* poll sleep; a file that is gone or holds no text raises past the inner
\* except clause and is answered by the outer one.
WaitRead ==
    /\ pc = "settle"
    /\ LET file == session.file
       IN  IF file.kind = "list" /\ Len(file.data) > 0
           THEN /\ batch' = [batch EXCEPT
                               !.data = Some(file.data),
                               !.response =
                                  Some([success |-> TRUE,
                                        batch_number |-> Get(batch.args, "batch_number"),
                                        element_count |-> Len(file.data),
                                        sample_element |-> file.data[1]])]
                /\ pc' = "returned"
           ELSE IF file.kind \in {"missing", "undecodable"}
           THEN /\ batch' = [batch EXCEPT !.response =
                               Some(batch_error(IF file.kind = "missing"
                                                THEN "FileNotFoundError"
                                                ELSE "UnicodeDecodeError"))]
                /\ pc' = "returned"
           ELSE /\ batch' = batch
                /\ pc' = "sleep"
    /\ UNCHANGED <<session, batch_frame>>

\* Lines 1283-1284: await asyncio.sleep(poll_interval); elapsed += poll_interval
WaitSleep ==
    /\ pc = "sleep"
    /\ batch' = [batch EXCEPT !.elapsed = @ + poll_interval]
    /\ pc' = "while"
    /\ UNCHANGED <<session, batch_frame>>

\* The writer creates, rewrites, truncates or removes the file at any time.
WriterStep ==
    /\ pc # "returned"
    /\ \E f \in WaitFileContents \ {session.file} :
          session' = [session EXCEPT !.file = f]
    /\ UNCHANGED <<pc, batch, batch_frame>>

WaitStep == WaitPoll \/ WaitTimeout \/ WaitRead \/ WaitSleep

NextWait == WaitStep \/ WriterStep

SpecWait == InitWait /\ [][NextWait]_vars

\* The event loop resumes the tool after each sleep, whatever the writer does.
FairSpecWait == SpecWait /\ WF_vars(WaitStep)

\* The tool returns, and not later than after ceil(timeout / 5) passes.
WaitReturns == <>(pc = "returned")
WaitPollBound ==
    batch # None => batch.polls * poll_interval < batch.timeout + poll_interval

\* C29: wait_for_batch_file returns either success, having read a non-empty
\* JSON list from the batch file, or else the timeout error, after at most
\* ceil(timeout_seconds / 5) polls, whatever the writer of the file does.
C29_SuccessOrTimeout ==
    (batch # None /\ pc = "returned") =>
        LET response == Val(batch.response)
        IN  IF response.success
            THEN /\ batch.data # None
                 /\ Len(Val(batch.data)) > 0
                 /\ response.element_count = Len(Val(batch.data))
            ELSE /\ response.error
                       = "Timeout waiting for batch "
                         \o ToString(Get(batch.args, "batch_number"))
                         \o " after " \o ToString(batch.timeout) \o " seconds"
                 /\ batch.polls <= (batch.timeout + poll_interval - 1)
                                      \div poll_interval

\* C30: on every database and element calculate_element_co2 and
\* calculate_co2_for_element give the same calculation_method, mass_kg and
\* co2_kg, and the two get_reinforcement_ratio give the same ratio.
C30_CopiesAgree ==
    /\ (calc # None /\ calc.element # None /\ calc.final # None) =>
          LET r == Val(calc.element)
              f == Val(calc.final)
          IN  /\ r.raised = ""
              /\ r.metadata.calculation_method = f.result.calculation_method
              /\ r.metadata.mass_kg = f.result.mass_kg
              /\ r.metadata.co2_kg = f.result.co2_kg
    /\ (calc # None /\ calc.ratio # None /\ calc.final_ratio # None) =>
          calc.ratio = calc.final_ratio

====
